---- MODULE Spec2Model ----
(***************************************************************************)
(* Quote distribution engine of CryptoStream.                              *)
(*                                                                         *)
(*   TradingViewScraper  (src/run.sh 76-440)   tracked tickers, one        *)
(*                        browser page per ticker, price-cache timestamps  *)
(*   PriceStreamer       (src/run.sh 451-758)  viewer registry, polling    *)
(*                        tick, broadcast, add/remove wrappers             *)
(*   HTTP routes         (src/backend/src/server.ts 51-194)  guarded       *)
(*                        callers of PriceStreamer.addTicker/removeTicker  *)
(*                                                                         *)
(* Every `await` of an async method is a point where other handlers run,   *)
(* so an async method is a sequence of actions, one per stretch of code    *)
(* between two awaits.                                                     *)
(***************************************************************************)
EXTENDS Integers, Sequences, FiniteSets, TLC

(***************************************************************************)
(* Bounds of the model.                                                    *)
(***************************************************************************)
MaxCalls == 2
MaxPages == 2
MaxTicks == 1
MaxViewers == 1
MaxTime == 1000
MaxLen == 16

(***************************************************************************)
(* Program constants.                                                      *)
(***************************************************************************)
PRICE_CACHE_DURATION == 200
STREAM_INTERVAL == 500
PING_INTERVAL == 60000
CLIENT_TIMEOUT == 120000
MinTickerLen == 3
MaxTickerLen == 10
RouteMinLen == 4
RouteMaxLen == 15

\* Clock granularity: Date.now() is observed at multiples of these steps.
TimeSteps == {STREAM_INTERVAL}

(***************************************************************************)
(* Identifiers.  A string is a sequence of one-character strings.          *)
(***************************************************************************)
UpperChars == {"A", "B", "D", "S", "U"}
LowerChars == {"a", "b", "d", "s", "u"}
DigitChars == {"7"}
SpaceChars == {" "}
OtherChars == {"-"}
Chars == UpperChars \cup LowerChars \cup DigitChars \cup SpaceChars \cup OtherChars

\* String.prototype.toUpperCase on one character.
UpperOf(c) ==
  CASE c = "a" -> "A"
    [] c = "b" -> "B"
    [] c = "d" -> "D"
    [] c = "s" -> "S"
    [] c = "u" -> "U"
    [] OTHER -> c

ToUpperCase(s) == [i \in 1..Len(s) |-> UpperOf(s[i])]

RECURSIVE TrimLeft(_)
TrimLeft(s) ==
  IF s # <<>> /\ Head(s) \in SpaceChars THEN TrimLeft(Tail(s)) ELSE s

RECURSIVE TrimRight(_)
TrimRight(s) ==
  IF s # <<>> /\ s[Len(s)] \in SpaceChars
  THEN TrimRight(SubSeq(s, 1, Len(s) - 1))
  ELSE s

\* String.prototype.trim
Trim(s) == TrimRight(TrimLeft(s))

\* ticker.toUpperCase().trim()
Normalize(s) == Trim(ToUpperCase(s))

\* /^[A-Z0-9]+$/.test(s)
IsAlnumUpper(s) ==
  /\ Len(s) >= 1
  /\ \A i \in 1..Len(s) : s[i] \in UpperChars \cup DigitChars

USD == <<"U", "S", "D">>

\* s.endsWith('USD')
EndsWithUSD(s) ==
  /\ Len(s) >= Len(USD)
  /\ SubSeq(s, Len(s) - Len(USD) + 1, Len(s)) = USD

\* /^[A-Z0-9]+USD$/.test(s)
MatchesAlnumThenUSD(s) ==
  /\ Len(s) >= Len(USD) + 1
  /\ EndsWithUSD(s)
  /\ IsAlnumUpper(SubSeq(s, 1, Len(s) - Len(USD)))

\* The length rule of TradingViewScraper.addTicker.
LengthOk(n) == ~(n < MinTickerLen \/ n > MaxTickerLen)

\* A validation without the character test: it looks at the length only.
ValidateTickerLengthOnly(raw) ==
  IF raw = <<>> THEN "InvalidIdentifier"
  ELSE IF ~LengthOk(Len(Normalize(raw))) THEN "InvalidIdentifier"
  ELSE "ok"

\* The outcome of the validation at the head of TradingViewScraper.addTicker:
\* "ok", or the error it throws.
ValidateTicker(raw) ==
  IF raw = <<>> THEN "InvalidIdentifier"
  ELSE IF ~IsAlnumUpper(Normalize(raw)) THEN "InvalidIdentifier"
  ELSE IF ~LengthOk(Len(Normalize(raw))) THEN "InvalidIdentifier"
  ELSE "ok"

\* The input validation of POST /api/tickers: "ok", or the code of the 400 reply.
RouteValidate(raw) ==
  LET t == Normalize(raw) IN
  IF raw = <<>> THEN "MISSING_TICKER"
  ELSE IF ~IsAlnumUpper(t) THEN "INVALID_TICKER_FORMAT"
  ELSE IF Len(t) < MinTickerLen \/ Len(t) > MaxTickerLen THEN "INVALID_TICKER_LENGTH"
  ELSE IF ~EndsWithUSD(t) THEN "INVALID_TICKER_FORMAT"
  ELSE IF ~MatchesAlnumThenUSD(t) THEN "INVALID_TICKER_FORMAT"
  ELSE IF Len(t) < RouteMinLen \/ Len(t) > RouteMaxLen THEN "INVALID_TICKER_LENGTH"
  ELSE "ok"


(***************************************************************************)
(* Array.prototype.sort() on strings: ascending by UTF-16 code units.      *)
(***************************************************************************)
CharCode(c) ==
  CASE c = " " -> 32
    [] c = "-" -> 45
    [] c = "7" -> 55
    [] c = "A" -> 65
    [] c = "B" -> 66
    [] c = "D" -> 68
    [] c = "S" -> 83
    [] c = "U" -> 85
    [] c = "a" -> 97
    [] c = "b" -> 98
    [] c = "d" -> 100
    [] c = "s" -> 115
    [] c = "u" -> 117

RECURSIVE StrLess(_, _)
StrLess(a, b) ==
  IF b = <<>> THEN FALSE
  ELSE IF a = <<>> THEN TRUE
  ELSE IF Head(a) # Head(b) THEN CharCode(Head(a)) < CharCode(Head(b))
  ELSE StrLess(Tail(a), Tail(b))

RECURSIVE InsertSorted(_, _)
InsertSorted(x, s) ==
  IF s = <<>> THEN <<x>>
  ELSE IF StrLess(Head(s), x) THEN <<Head(s)>> \o InsertSorted(x, Tail(s))
  ELSE <<x>> \o s

RECURSIVE SortStrings(_)
SortStrings(s) ==
  IF s = <<>> THEN <<>> ELSE InsertSorted(Head(s), SortStrings(Tail(s)))

Range(s) == {s[i] : i \in 1..Len(s)}

RECURSIVE Without(_, _)
Without(s, x) ==
  IF s = <<>> THEN <<>>
  ELSE IF Head(s) = x THEN Without(Tail(s), x)
  ELSE <<Head(s)>> \o Without(Tail(s), x)

(***************************************************************************)
(* The requests the model issues.                                          *)
(***************************************************************************)
\* One ticker, as a client may type it, and one identifier add refuses.
RawInputs ==
  { <<" ", "b", "u", "s", "d">>,
    <<"B", "-", "S", "D">> }
\* remove and DELETE do not validate: the model removes what add could take.
RemoveInputs == {raw \in RawInputs : ValidateTicker(raw) = "ok"}

\* The identifiers the validation is exercised with: one of each length at and
\* around the limits the code compares with (digits below the length of a USD
\* pair, letters and USD from there on), and identifiers to trim, to fold and
\* to refuse.
Rep(c, n) == [i \in 1..n |-> c]
Lens ==
  { 0, MinTickerLen - 1, MinTickerLen, MaxTickerLen, MaxTickerLen + 1,
    RouteMaxLen, MaxLen }
OfLength(n) ==
  IF n <= Len(USD) THEN Rep("7", n) ELSE Rep("A", n - Len(USD)) \o USD
ValidationInputs ==
  { OfLength(n) : n \in Lens }
    \cup { <<" ">> \o OfLength(MinTickerLen),
           Rep("a", MaxTickerLen - Len(USD)) \o <<"u", "s", "d">>,
           Rep("B", MinTickerLen - 1) \o <<"-">> }

\* The tickers whose order the list is exercised with: one a prefix of
\* another, one with a digit where the others have a letter, one too short.
ListInputs ==
  { <<"B", "U", "S", "D">>,
    <<"B", "U", "S">>,
    <<"B", "7", "S">>,
    <<"B", "U">> }

CallIds == 1..MaxCalls
PageIds == 1..MaxPages
TickIds == 1..MaxTicks
Viewers == 1..MaxViewers

VARIABLES
  browser,          \* TradingViewScraper.browser is set
  pages,            \* TradingViewScraper.pages: ticker -> page
  activeTickers,    \* TradingViewScraper.activeTickers, in insertion order
  lastPriceUpdate,  \* TradingViewScraper.lastPriceUpdate: ticker -> time
  openPages,        \* the pages open in the browser, each with its ticker
  nextPage,         \* the next page the browser creates
  calls,            \* the add/remove calls suspended at an await
  ticks,            \* the polling ticks whose retrievals are pending
  clients,          \* PriceStreamer.clients: viewer -> lastPing
  wsState,          \* each viewer's socket: "none" or "open"
  isStreaming,      \* PriceStreamer.isStreaming
  stopped,          \* PriceStreamer.stop() has run
  now,              \* Date.now()
  nextTickAt,       \* when the streaming interval fires next
  nextPingAt,       \* when the ping interval fires next
  returned,         \* what the step just taken returned to a caller, if anything
  sent,             \* the message the step just taken sent, and to which viewers
  snapshot,         \* the tracked set the tick started by the step just taken took
  removed,          \* tracked tickers whose remove returned, not added since
  wsRef,            \* useWebSocket: wsRef.current, a channel or 0 for null
  sockets,          \* the WebSocket objects the hook created: readyState, handlers
  timers,           \* the timeouts the hook set that are pending, and the time left
  reconnectTimeoutRef,   \* reconnectTimeoutRef.current: a timer id, 0 for null
  reconnectAttemptsRef,  \* reconnectAttemptsRef.current
  connectionState,  \* the hook's connectionState
  did,              \* the hook function or handler the step just taken ran
  lastCall          \* the hook function the application called last

vars ==
  << browser, pages, activeTickers, lastPriceUpdate, openPages, nextPage, calls,
     ticks, clients, wsState, isStreaming, stopped, now, nextTickAt, nextPingAt,
     returned, sent, snapshot, removed, wsRef, sockets, timers,
     reconnectTimeoutRef, reconnectAttemptsRef, connectionState, did, lastCall >>

scraperVars == << browser, pages, activeTickers, lastPriceUpdate, openPages, nextPage >>
clockVars == << now, nextTickAt, nextPingAt, isStreaming, stopped >>
histVars == << removed >>
hookVars ==
  << wsRef, sockets, timers, reconnectTimeoutRef, reconnectAttemptsRef,
     connectionState, did, lastCall >>

IdleCall ==
  [op |-> "idle", ticker |-> <<>>, pc |-> "-", page |-> 0, reason |-> "-", t0 |-> 0]
IdleTick == [st |-> "idle", snap |-> <<>>, t0 |-> 0, res |-> <<>>]
NoMsg == [type |-> "none", data |-> <<>>, to |-> {}]
NoResult == [op |-> "none", arg |-> <<>>, res |-> "none", reason |-> "none"]
NoSnap == [taken |-> FALSE, list |-> <<>>]

\* A getActiveTickers that forgets `.sort()`: the tickers in insertion order.
GetActiveTickersUnsorted == activeTickers

\* TradingViewScraper.getActiveTickers
GetActiveTickers == SortStrings(activeTickers)

\* this.activeTickers.has(t)
IsTracked(t) == t \in Range(activeTickers)

\* this.activeTickers.add(t): a Set keeps insertion order and no duplicate.
SetAdd(s, t) == IF t \in Range(s) THEN s ELSE Append(s, t)

\* this.lastPriceUpdate.get(t) || 0
LastUpdate(t) == IF t \in DOMAIN lastPriceUpdate THEN lastPriceUpdate[t] ELSE 0

\* map.delete(k)
MapDelete(m, k) == [x \in (DOMAIN m) \ {k} |-> m[x]]

\* map.set(k, v)
MapSet(m, k, v) == [x \in (DOMAIN m) \cup {k} |-> IF x = k THEN v ELSE m[x]]

\* page.close(): the page leaves the browser.
ClosePage(open, p) == {q \in open : q.id # p}

\* useWebSocket before its mount effect runs: no channel, no timer, attempts 0.
MaxChannels == 2
MaxTimers == 2
ChannelIds == 1..MaxChannels
TimerIds == 1..MaxTimers
NoSocket == [rs |-> "none", handlers |-> FALSE]
NoError == "null"
Idle == [op |-> "-", code |-> 0]

HookInit ==
  /\ wsRef = 0
  /\ sockets = [c \in ChannelIds |-> NoSocket]
  /\ timers = {}
  /\ reconnectTimeoutRef = 0
  /\ reconnectAttemptsRef = 0
  /\ connectionState = [isConnected |-> FALSE, isConnecting |-> FALSE,
                        reconnectAttempts |-> 0, lastError |-> NoError]
  /\ did = Idle
  /\ lastCall = "-"

Init ==
  /\ browser = FALSE
  /\ pages = << >>
  /\ activeTickers = << >>
  /\ lastPriceUpdate = << >>
  /\ openPages = {}
  /\ nextPage = 1
  /\ calls = [c \in CallIds |-> IdleCall]
  /\ ticks = [k \in TickIds |-> IdleTick]
  /\ clients = << >>
  /\ wsState = [v \in Viewers |-> "none"]
  /\ isStreaming = FALSE
  /\ stopped = FALSE
  /\ now = 0
  /\ nextTickAt = 0
  /\ nextPingAt = 0
  /\ returned = NoResult
  /\ sent = NoMsg
  /\ snapshot = NoSnap
  /\ removed = {}
  /\ HookInit

(***************************************************************************)
(* PriceStreamer.broadcast and sendToClient.                               *)
(***************************************************************************)
\* The registered viewers whose socket is OPEN: the message is written to them.
OpenClients == {v \in DOMAIN clients : wsState[v] = "open"}

\* The registry in the order forEach visits it.
RECURSIVE Ascending(_)
Ascending(S) ==
  IF S = {} THEN << >>
  ELSE LET m == CHOOSE x \in S : \A y \in S : x <= y
       IN  <<m>> \o Ascending(S \ {m})

NoWalk == [delivered |-> << >>, dead |-> << >>]

\* A broadcast whose loop has no try/catch around the send and no readyState
\* test: it ends at the first viewer that cannot be written to.
RECURSIVE BroadcastWalkAborts(_, _)
BroadcastWalkAborts(ids, w) ==
  IF ids = << >> THEN w
  ELSE IF wsState[Head(ids)] = "open"
       THEN BroadcastWalkAborts(Tail(ids),
                                [w EXCEPT !.delivered = Append(@, Head(ids))])
       ELSE [w EXCEPT !.dead = Append(@, Head(ids))]

\* The forEach of PriceStreamer.broadcast: a viewer whose socket is OPEN and
\* takes the write is sent the data; one whose socket is not OPEN, or whose send
\* throws, is put on deadClients; the loop goes on to the next viewer.
RECURSIVE BroadcastWalk(_, _)
BroadcastWalk(ids, w) ==
  IF ids = << >> THEN w
  ELSE IF wsState[Head(ids)] = "open"
       THEN BroadcastWalk(Tail(ids), [w EXCEPT !.delivered = Append(@, Head(ids))])
       ELSE BroadcastWalk(Tail(ids), [w EXCEPT !.dead = Append(@, Head(ids))])

\* PriceStreamer.broadcast(message): the viewers are walked, then the dead ones
\* are deleted from the registry.
Broadcast(type, data) ==
  LET w == BroadcastWalk(Ascending(DOMAIN clients), NoWalk) IN
    /\ sent' = [type |-> type, data |-> data, to |-> Range(w.delivered)]
    /\ clients' = [v \in (DOMAIN clients) \ Range(w.dead) |-> clients[v]]
    /\ wsState' = wsState

\* PriceStreamer.sendToClient(client, message): written if the socket is OPEN.
SendToClient(v, type, data) ==
  sent' = [type |-> type, data |-> data,
           to |-> IF wsState'[v] = "open" THEN {v} ELSE {}]

\* The step sends nothing and leaves the registry alone.
NoSend ==
  /\ sent' = NoMsg
  /\ UNCHANGED << clients, wsState >>

(***************************************************************************)
(* Calls and their results.                                                *)
(***************************************************************************)
\* The call returns (res = "ok") or throws (any other res) to its caller.
Return(op, arg, res, reason) ==
  returned' = [op |-> op, arg |-> arg, res |-> res, reason |-> reason]

\* No call returns in the step.
NoReturn == returned' = NoResult

\* No tick starts in the step.
NoTick == snapshot' = NoSnap

\* The slot a new suspended call takes: the lowest free one.
FreeCall(c) ==
  /\ calls[c].op = "idle"
  /\ \A d \in CallIds : d < c => calls[d].op # "idle"

Suspend(c, rec) == calls' = [calls EXCEPT ![c] = rec]
Resume(c) == calls' = [calls EXCEPT ![c] = IdleCall]

(***************************************************************************)
(* PriceStreamer.addTicker -> TradingViewScraper.addTicker                 *)
(***************************************************************************)
\* The validation throws: nothing was opened, PriceStreamer rethrows.
AddInvalid(raw) ==
  /\ ~stopped
  /\ NoTick
  /\ ValidateTicker(raw) # "ok"
  /\ Return("add", raw, ValidateTicker(raw), "invalid ticker")
  /\ NoSend
  /\ UNCHANGED << scraperVars, clockVars, hookVars, histVars, calls, ticks >>

\* An add without the early return of a tracked ticker: the ticker is entered
\* into the tracked list once more.
AddTrackedAgain(raw) ==
  /\ ~stopped
  /\ NoTick
  /\ ValidateTicker(raw) = "ok"
  /\ IsTracked(Normalize(raw))
  /\ activeTickers' = Append(activeTickers, Normalize(raw))
  /\ Broadcast("activeTickers", GetActiveTickers')
  /\ Return("add", raw, "ok", "already tracked")
  /\ UNCHANGED << browser, pages, lastPriceUpdate, openPages, nextPage, clockVars, hookVars,
                  histVars, calls, ticks >>

\* The ticker is tracked already: the scraper returns at once, and
\* PriceStreamer.addTicker broadcasts the ticker list.
AddAlreadyTracked(raw) ==
  /\ ~stopped
  /\ NoTick
  /\ ValidateTicker(raw) = "ok"
  /\ IsTracked(Normalize(raw))
  /\ Broadcast("activeTickers", GetActiveTickers)
  /\ Return("add", raw, "ok", "already tracked")
  /\ UNCHANGED << scraperVars, clockVars, hookVars, histVars, calls, ticks >>

\* The browser is not launched yet: the scraper throws before its try block.
AddNoBrowser(raw) ==
  /\ ~stopped
  /\ NoTick
  /\ ValidateTicker(raw) = "ok"
  /\ ~IsTracked(Normalize(raw))
  /\ ~browser
  /\ Return("add", raw, "BrowserNotInitialized", "Browser not initialized")
  /\ NoSend
  /\ UNCHANGED << scraperVars, clockVars, hookVars, histVars, calls, ticks >>

\* The call passes the checks and suspends at `await this.browser.newPage()`.
AddBegin(c, raw) ==
  /\ ~stopped
  /\ NoTick
  /\ ValidateTicker(raw) = "ok"
  /\ ~IsTracked(Normalize(raw))
  /\ browser
  /\ FreeCall(c)
  /\ nextPage <= MaxPages
  /\ Suspend(c, [op |-> "add", ticker |-> Normalize(raw), pc |-> "newPage",
                 page |-> 0, reason |-> "-", t0 |-> 0])
  /\ NoReturn /\ NoSend
  /\ UNCHANGED << scraperVars, clockVars, hookVars, histVars, ticks >>

\* PriceStreamer.addTicker(raw), as called.
AddTicker(raw) ==
  \/ AddInvalid(raw)
  \/ AddAlreadyTracked(raw)
  \/ AddNoBrowser(raw)
  \/ \E c \in CallIds : AddBegin(c, raw)

\* newPage() resolves: the browser holds one more page, which the call goes on
\* to configure and navigate (awaits up to the error checks).
AddNewPage(c) ==
  /\ ~stopped
  /\ NoTick
  /\ calls[c].op = "add" /\ calls[c].pc = "newPage"
  /\ openPages' = openPages \cup {[id |-> nextPage, ticker |-> calls[c].ticker]}
  /\ nextPage' = nextPage + 1
  /\ Suspend(c, [calls[c] EXCEPT !.pc = "nav", !.page = nextPage])
  /\ NoReturn /\ NoSend
  /\ UNCHANGED << browser, pages, activeTickers, lastPriceUpdate, clockVars, hookVars,
                  histVars, ticks >>

\* An addTicker that registers the page and forgets `activeTickers.add`.
AddNavOkForgetsTicker(c) ==
  /\ ~stopped
  /\ NoTick
  /\ calls[c].op = "add" /\ calls[c].pc = "nav"
  /\ pages' = MapSet(pages, calls[c].ticker, calls[c].page)
  /\ Broadcast("activeTickers", GetActiveTickers)
  /\ Return("add", calls[c].ticker, "ok", "added")
  /\ Resume(c)
  /\ UNCHANGED << browser, activeTickers, lastPriceUpdate, openPages, nextPage,
                  clockVars, hookVars, histVars, ticks >>

\* Navigation succeeded and no error page was found: the page is registered,
\* the ticker becomes tracked, PriceStreamer broadcasts the list, the call returns.
AddNavOk(c) ==
  /\ ~stopped
  /\ NoTick
  /\ calls[c].op = "add" /\ calls[c].pc = "nav"
  /\ pages' = MapSet(pages, calls[c].ticker, calls[c].page)
  /\ activeTickers' = SetAdd(activeTickers, calls[c].ticker)
  /\ Broadcast("activeTickers", GetActiveTickers')
  /\ Return("add", calls[c].ticker, "ok", "added")
  /\ Resume(c)
  /\ removed' = removed \ {calls[c].ticker}
  /\ UNCHANGED << browser, lastPriceUpdate, openPages, nextPage, clockVars, hookVars, ticks >>

\* The catch block of TradingViewScraper.addTicker: the page registered for the
\* ticker, if any, is closed (an await) and the entry deleted; then the error is
\* rethrown.
AddCatch(c, reason) ==
  IF calls[c].ticker \in DOMAIN pages
  THEN /\ openPages' = ClosePage(openPages, pages[calls[c].ticker])
       /\ Suspend(c, [calls[c] EXCEPT !.pc = "catchClose",
                                      !.page = pages[calls[c].ticker],
                                      !.reason = reason])
       /\ NoReturn
  ELSE /\ Return("add", calls[c].ticker, "SourceUnavailable", reason)
       /\ Resume(c)
       /\ UNCHANGED << openPages >>

\* The source shows its error page: the call closes its own page (an await)
\* before it throws.
AddNavNotFound(c) ==
  /\ ~stopped
  /\ NoTick
  /\ calls[c].op = "add" /\ calls[c].pc = "nav"
  /\ openPages' = ClosePage(openPages, calls[c].page)
  /\ Suspend(c, [calls[c] EXCEPT !.pc = "closeOwn"])
  /\ NoReturn /\ NoSend
  /\ UNCHANGED << browser, pages, activeTickers, lastPriceUpdate, nextPage,
                  clockVars, hookVars, histVars, ticks >>

\* The own page is closed; the "not found on TradingView" error is thrown into
\* the catch block.
AddNotFoundThrown(c) ==
  /\ ~stopped
  /\ NoTick
  /\ calls[c].op = "add" /\ calls[c].pc = "closeOwn"
  /\ AddCatch(c, "not found on TradingView")
  /\ NoSend
  /\ UNCHANGED << browser, pages, activeTickers, lastPriceUpdate, nextPage,
                  clockVars, hookVars, histVars, ticks >>

\* page.goto (or another awaited page call) throws: the catch block runs with the
\* page of the call still open.
AddNavThrows(c) ==
  /\ ~stopped
  /\ NoTick
  /\ calls[c].op = "add" /\ calls[c].pc = "nav"
  /\ AddCatch(c, "navigation failed")
  /\ NoSend
  /\ UNCHANGED << browser, pages, activeTickers, lastPriceUpdate, nextPage,
                  clockVars, hookVars, histVars, ticks >>

\* The close in the catch block resolved: the entry is deleted, the error rethrown.
AddCatchClosed(c) ==
  /\ ~stopped
  /\ NoTick
  /\ calls[c].op = "add" /\ calls[c].pc = "catchClose"
  /\ pages' = MapDelete(pages, calls[c].ticker)
  /\ Return("add", calls[c].ticker, "SourceUnavailable", calls[c].reason)
  /\ Resume(c)
  /\ NoSend
  /\ UNCHANGED << browser, activeTickers, lastPriceUpdate, openPages, nextPage,
                  clockVars, hookVars, histVars, ticks >>

(***************************************************************************)
(* PriceStreamer.removeTicker -> TradingViewScraper.removeTicker           *)
(***************************************************************************)
\* A remove of a ticker without a page that tells the viewers nothing.
RemoveNoPageSilent(raw) ==
  /\ ~stopped
  /\ NoTick
  /\ Normalize(raw) \notin DOMAIN pages
  /\ activeTickers' = Without(activeTickers, Normalize(raw))
  /\ NoSend
  /\ Return("remove", raw, "ok", "removed")
  /\ removed' = IF IsTracked(Normalize(raw))
                THEN removed \cup {Normalize(raw)}
                ELSE removed
  /\ UNCHANGED << browser, pages, lastPriceUpdate, openPages, nextPage, clockVars, hookVars,
                  calls, ticks >>

\* No page is registered for the ticker: the scraper deletes the ticker from
\* the tracked set and returns; PriceStreamer broadcasts the list.
RemoveNoPage(raw) ==
  /\ ~stopped
  /\ NoTick
  /\ Normalize(raw) \notin DOMAIN pages
  /\ activeTickers' = Without(activeTickers, Normalize(raw))
  /\ Broadcast("activeTickers", GetActiveTickers')
  /\ Return("remove", raw, "ok", "removed")
  /\ removed' = IF IsTracked(Normalize(raw))
                THEN removed \cup {Normalize(raw)}
                ELSE removed
  /\ UNCHANGED << browser, pages, lastPriceUpdate, openPages, nextPage, clockVars, hookVars,
                  calls, ticks >>

\* A page is registered: the call closes it and suspends at `await page.close()`.
RemoveBegin(c, raw) ==
  /\ ~stopped
  /\ NoTick
  /\ Normalize(raw) \in DOMAIN pages
  /\ FreeCall(c)
  /\ openPages' = ClosePage(openPages, pages[Normalize(raw)])
  /\ Suspend(c, [op |-> "remove", ticker |-> Normalize(raw), pc |-> "close",
                 page |-> pages[Normalize(raw)], reason |-> "-", t0 |-> 0])
  /\ NoReturn /\ NoSend
  /\ UNCHANGED << browser, pages, activeTickers, lastPriceUpdate, nextPage,
                  clockVars, hookVars, histVars, ticks >>

\* PriceStreamer.removeTicker(raw), as called.
RemoveTicker(raw) ==
  \/ RemoveNoPage(raw)
  \/ \E c \in CallIds : RemoveBegin(c, raw)

\* A removeTicker that broadcasts the list it read before the removal.
RemoveFinishStaleList(c) ==
  /\ ~stopped
  /\ NoTick
  /\ calls[c].op = "remove" /\ calls[c].pc = "close"
  /\ pages' = MapDelete(pages, calls[c].ticker)
  /\ activeTickers' = Without(activeTickers, calls[c].ticker)
  /\ Broadcast("activeTickers", GetActiveTickers)
  /\ Return("remove", calls[c].ticker, "ok", "removed")
  /\ Resume(c)
  /\ removed' = removed \cup {calls[c].ticker}
  /\ UNCHANGED << browser, lastPriceUpdate, openPages, nextPage, clockVars, hookVars, ticks >>

\* A remove that closes the page and forgets `this.activeTickers.delete`.
RemoveFinishKeepsTicker(c) ==
  /\ ~stopped
  /\ NoTick
  /\ calls[c].op = "remove" /\ calls[c].pc = "close"
  /\ pages' = MapDelete(pages, calls[c].ticker)
  /\ Broadcast("activeTickers", GetActiveTickers)
  /\ Return("remove", calls[c].ticker, "ok", "removed")
  /\ Resume(c)
  /\ removed' = removed \cup {calls[c].ticker}
  /\ UNCHANGED << browser, activeTickers, lastPriceUpdate, openPages, nextPage,
                  clockVars, hookVars, ticks >>

\* close() resolved: the page entry and the ticker are deleted, PriceStreamer
\* broadcasts the list, the call returns.
RemoveFinish(c) ==
  /\ ~stopped
  /\ NoTick
  /\ calls[c].op = "remove" /\ calls[c].pc = "close"
  /\ pages' = MapDelete(pages, calls[c].ticker)
  /\ activeTickers' = Without(activeTickers, calls[c].ticker)
  /\ Broadcast("activeTickers", GetActiveTickers')
  /\ Return("remove", calls[c].ticker, "ok", "removed")
  /\ Resume(c)
  /\ removed' = removed \cup {calls[c].ticker}
  /\ UNCHANGED << browser, lastPriceUpdate, openPages, nextPage, clockVars, hookVars, ticks >>

(***************************************************************************)
(* The HTTP routes of server.ts, the callers of the two methods above.     *)
(***************************************************************************)
\* POST /api/tickers replies 400: the body fails the route's validation.
PostRejected(raw) ==
  /\ ~stopped
  /\ NoTick
  /\ RouteValidate(raw) # "ok"
  /\ Return("POST", raw, RouteValidate(raw), "400")
  /\ NoSend
  /\ UNCHANGED << scraperVars, clockVars, hookVars, histVars, calls, ticks >>

\* POST /api/tickers replies 409: the ticker is in getActiveTickers().
PostExists(raw) ==
  /\ ~stopped
  /\ NoTick
  /\ RouteValidate(raw) = "ok"
  /\ IsTracked(Normalize(raw))
  /\ Return("POST", raw, "TICKER_EXISTS", "409")
  /\ NoSend
  /\ UNCHANGED << scraperVars, clockVars, hookVars, histVars, calls, ticks >>

\* POST /api/tickers: the checks, then `await priceStreamer.addTicker(...)`.
PostTickers(raw) ==
  \/ PostRejected(raw)
  \/ PostExists(raw)
  \/ /\ RouteValidate(raw) = "ok"
     /\ ~IsTracked(Normalize(raw))
     /\ AddTicker(Normalize(raw))

\* DELETE /api/tickers/:ticker replies 404: the ticker is not in getActiveTickers().
DeleteNotFound(raw) ==
  /\ ~stopped
  /\ NoTick
  /\ ~IsTracked(Normalize(raw))
  /\ Return("DELETE", raw, "TICKER_NOT_FOUND", "404")
  /\ NoSend
  /\ UNCHANGED << scraperVars, clockVars, hookVars, histVars, calls, ticks >>

\* DELETE /api/tickers/:ticker: the check, then `await priceStreamer.removeTicker(...)`.
DeleteTickers(raw) ==
  \/ DeleteNotFound(raw)
  \/ /\ IsTracked(Normalize(raw))
     /\ RemoveTicker(Normalize(raw))

(***************************************************************************)
(* The polling tick: the streaming interval of PriceStreamer.startStreaming *)
(* -> TradingViewScraper.getAllPrices -> getPrice per tracked ticker.      *)
(***************************************************************************)
SourcePrices == {1}

\* What getPrice(ticker) of a tick has come to: null, the price text awaited on
\* a page, the price parsed and the optional fields awaited, or the quote.
NullRes == [k |-> "null", page |-> 0, price |-> 0, quote |-> << >>]
PendRes(p) == [k |-> "pend", page |-> p, price |-> 0, quote |-> << >>]
PricedRes(p, price) == [k |-> "priced", page |-> p, price |-> price, quote |-> << >>]
QuoteRes(q) == [k |-> "quote", page |-> 0, price |-> q.price, quote |-> q]

\* A getPrice without the cache test: every call with a page starts a retrieval.
GetPriceStartNoGate(t) ==
  IF t \notin DOMAIN pages THEN NullRes ELSE PendRes(pages[t])

\* getPrice up to its first await: no page, or a fetch less than
\* PRICE_CACHE_DURATION ago, gives null; otherwise the retrieval starts.
GetPriceStart(t) ==
  IF t \notin DOMAIN pages THEN NullRes
  ELSE IF now - LastUpdate(t) < PRICE_CACHE_DURATION THEN NullRes
  ELSE PendRes(pages[t])

HasPending(res) == \E i \in 1..Len(res) : res[i].k \in {"pend", "priced"}

\* results.filter(price => price !== null)
RECURSIVE NonNull(_)
NonNull(res) ==
  IF res = <<>> THEN <<>>
  ELSE IF Head(res).k = "quote" THEN <<Head(res).quote>> \o NonNull(Tail(res))
  ELSE NonNull(Tail(res))

FreeTick(k) ==
  /\ ticks[k].st = "idle"
  /\ \A j \in TickIds : j < k => ticks[j].st # "idle"

\* The interval fires: getAllPrices snapshots the tracked set and starts one
\* getPrice per ticker.  With no retrieval started every result is null, the
\* batch is empty and nothing is sent.
TickStart(k) ==
  /\ ~stopped /\ isStreaming
  /\ now = nextTickAt
  /\ FreeTick(k)
  /\ nextTickAt' = now + STREAM_INTERVAL
  /\ snapshot' = [taken |-> TRUE, list |-> activeTickers]
  /\ LET res == [i \in 1..Len(activeTickers) |-> GetPriceStart(activeTickers[i])] IN
       ticks' = IF HasPending(res)
                THEN [ticks EXCEPT ![k] = [st |-> "run", snap |-> activeTickers,
                                           t0 |-> now, res |-> res]]
                ELSE ticks
  /\ NoReturn /\ NoSend
  /\ UNCHANGED << scraperVars, histVars, hookVars, calls, now, nextPingAt,
                  isStreaming, stopped >>

\* A tick that broadcasts its batch without testing `prices.length > 0`.
TickContinueAlwaysSends(k, res) ==
  IF HasPending(res)
  THEN /\ ticks' = [ticks EXCEPT ![k].res = res]
       /\ NoSend
  ELSE /\ ticks' = [ticks EXCEPT ![k] = IdleTick]
       /\ Broadcast("prices", NonNull(res))

\* The rest of the tick once one more result is known: with retrievals still
\* pending the tick waits; otherwise Promise.all resolves and a non-empty batch
\* is broadcast as a prices message.
TickContinue(k, res) ==
  IF HasPending(res)
  THEN /\ ticks' = [ticks EXCEPT ![k].res = res]
       /\ NoSend
  ELSE /\ ticks' = [ticks EXCEPT ![k] = IdleTick]
       /\ IF NonNull(res) # <<>>
          THEN Broadcast("prices", NonNull(res))
          ELSE NoSend

\* The price text is read from the page, which must be open, and parses to a
\* positive number; getPrice goes on to await the optional fields (daily change,
\* source time), whose failures it ignores.
RetrievePrice(k, i, price) ==
  /\ ~stopped
  /\ NoTick
  /\ ticks[k].st = "run"
  /\ ticks[k].res[i].k = "pend"
  /\ \E q \in openPages : q.id = ticks[k].res[i].page
  /\ ticks' = [ticks EXCEPT ![k].res[i] = PricedRes(ticks[k].res[i].page, price)]
  /\ NoReturn /\ NoSend
  /\ UNCHANGED << scraperVars, clockVars, hookVars, histVars, calls >>

\* The optional fields are read or given up: the cache timestamp is set to the
\* time getPrice started, the quote carries the time it is built.
RetrieveOk(k, i) ==
  /\ ~stopped
  /\ NoTick
  /\ ticks[k].st = "run"
  /\ ticks[k].res[i].k = "priced"
  /\ lastPriceUpdate' = MapSet(lastPriceUpdate, ticks[k].snap[i], ticks[k].t0)
  /\ TickContinue(k, [ticks[k].res EXCEPT
         ![i] = QuoteRes([ticker |-> ticks[k].snap[i],
                          price |-> ticks[k].res[i].price,
                          timestamp |-> now])])
  /\ NoReturn
  /\ UNCHANGED << browser, pages, activeTickers, openPages, nextPage, clockVars, hookVars,
                  histVars, calls >>

\* A getAllPrices without the catch around getPrice: one failure rejects
\* Promise.all, and the tick's catch block broadcasts an error message.
RetrieveNullAborts(k, i) ==
  /\ ~stopped
  /\ NoTick
  /\ ticks[k].st = "run"
  /\ ticks[k].res[i].k = "pend"
  /\ ticks' = [ticks EXCEPT ![k] = IdleTick]
  /\ Broadcast("error", << >>)
  /\ NoReturn
  /\ UNCHANGED << scraperVars, clockVars, hookVars, histVars, calls >>

\* A getPrice that gives up a ticker whose retrieval failed: it is untracked.
RetrieveNullUntracks(k, i) ==
  /\ ~stopped
  /\ NoTick
  /\ ticks[k].st = "run"
  /\ ticks[k].res[i].k = "pend"
  /\ TickContinue(k, [ticks[k].res EXCEPT ![i] = NullRes])
  /\ activeTickers' = Without(activeTickers, ticks[k].snap[i])
  /\ NoReturn
  /\ UNCHANGED << browser, pages, lastPriceUpdate, openPages, nextPage,
                  clockVars, hookVars, histVars, calls >>

\* A retrieval finds no price text, cannot parse it, times out or throws: null.
RetrieveNull(k, i) ==
  /\ ~stopped
  /\ NoTick
  /\ ticks[k].st = "run"
  /\ ticks[k].res[i].k = "pend"
  /\ TickContinue(k, [ticks[k].res EXCEPT ![i] = NullRes])
  /\ NoReturn
  /\ UNCHANGED << scraperVars, clockVars, hookVars, histVars, calls >>

(***************************************************************************)
(* TradingViewScraper.getPrice called by itself, at any time.              *)
(***************************************************************************)
CacheInputs == { <<" ", "b", "u", "s", "d">> }

\* getPrice returns null at once: the ticker has no page, or its last fetch is
\* less than PRICE_CACHE_DURATION old.
GetPriceSkip(raw) ==
  /\ ~stopped
  /\ NoTick
  /\ GetPriceStart(Normalize(raw)).k = "null"
  /\ Return("getPrice", raw, "null",
            IF Normalize(raw) \in DOMAIN pages THEN "too soon" ELSE "no page")
  /\ NoSend
  /\ UNCHANGED << scraperVars, clockVars, hookVars, histVars, calls, ticks >>

\* getPrice passes both tests and suspends at the first `await page.textContent`.
GetPriceBegin(c, raw) ==
  /\ ~stopped
  /\ NoTick
  /\ GetPriceStart(Normalize(raw)).k = "pend"
  /\ FreeCall(c)
  /\ Suspend(c, [op |-> "getPrice", ticker |-> Normalize(raw), pc |-> "price",
                 page |-> pages[Normalize(raw)], reason |-> "-", t0 |-> now])
  /\ NoReturn /\ NoSend
  /\ UNCHANGED << scraperVars, clockVars, hookVars, histVars, ticks >>

\* TradingViewScraper.getPrice(raw), as called.
GetPrice(raw) ==
  \/ GetPriceSkip(raw)
  \/ \E c \in CallIds : GetPriceBegin(c, raw)

\* The price text is read from the open page and parses to a positive number.
GetPriceRead(c) ==
  /\ ~stopped
  /\ NoTick
  /\ calls[c].op = "getPrice" /\ calls[c].pc = "price"
  /\ \E q \in openPages : q.id = calls[c].page
  /\ Suspend(c, [calls[c] EXCEPT !.pc = "fields"])
  /\ NoReturn /\ NoSend
  /\ UNCHANGED << scraperVars, clockVars, hookVars, histVars, ticks >>

\* No price text, no number in it, or an exception: getPrice returns null and
\* leaves the cache timestamp alone.
GetPriceNoPrice(c) ==
  /\ ~stopped
  /\ NoTick
  /\ calls[c].op = "getPrice" /\ calls[c].pc = "price"
  /\ Return("getPrice", calls[c].ticker, "null", "no price")
  /\ Resume(c)
  /\ NoSend
  /\ UNCHANGED << scraperVars, clockVars, hookVars, histVars, ticks >>

\* The optional fields are read or given up: the cache timestamp is set to the
\* time the call started and the quote is returned.
GetPriceDone(c) ==
  /\ ~stopped
  /\ NoTick
  /\ calls[c].op = "getPrice" /\ calls[c].pc = "fields"
  /\ lastPriceUpdate' = MapSet(lastPriceUpdate, calls[c].ticker, calls[c].t0)
  /\ Return("getPrice", calls[c].ticker, "quote", "fetched")
  /\ Resume(c)
  /\ NoSend
  /\ UNCHANGED << browser, pages, activeTickers, openPages, nextPage, clockVars, hookVars,
                  histVars, ticks >>

(***************************************************************************)
(* Viewers.                                                                *)
(***************************************************************************)
\* A connection handler that registers the viewer and sends it nothing.
ConnectSilent(v) ==
  /\ ~stopped
  /\ NoTick
  /\ wsState[v] = "none"
  /\ wsState' = [wsState EXCEPT ![v] = "open"]
  /\ clients' = MapSet(clients, v, [lastPing |-> now])
  /\ sent' = NoMsg
  /\ NoReturn
  /\ UNCHANGED << scraperVars, clockVars, hookVars, histVars, calls, ticks >>

\* wss.on('connection'): the viewer is registered and sent the ticker list.
Connect(v) ==
  /\ ~stopped
  /\ NoTick
  /\ wsState[v] = "none"
  /\ wsState' = [wsState EXCEPT ![v] = "open"]
  /\ clients' = MapSet(clients, v, [lastPing |-> now])
  /\ SendToClient(v, "activeTickers", GetActiveTickers)
  /\ NoReturn
  /\ UNCHANGED << scraperVars, clockVars, hookVars, histVars, calls, ticks >>

(***************************************************************************)
(* Start, clock, stop.                                                     *)
(***************************************************************************)
\* PriceStreamer.startStreaming: the browser is launched, the interval is set.
StartStreaming ==
  /\ ~stopped /\ ~isStreaming
  /\ NoTick
  /\ browser' = TRUE
  /\ isStreaming' = TRUE
  /\ nextTickAt' = now + STREAM_INTERVAL
  /\ nextPingAt' = now + PING_INTERVAL
  /\ NoReturn /\ NoSend
  /\ UNCHANGED << pages, activeTickers, lastPriceUpdate, openPages, nextPage,
                  histVars, hookVars, calls, ticks, now, stopped >>

\* Time passes, never beyond the instant the interval fires.  The clock starts
\* with the streaming: what happens before is at time 0.
Advance(d) ==
  /\ ~stopped /\ isStreaming
  /\ NoTick
  /\ now + d <= MaxTime
  /\ now + d <= nextTickAt
  /\ now + d <= nextPingAt
  /\ now' = now + d
  /\ NoReturn /\ NoSend
  /\ UNCHANGED << scraperVars, histVars, hookVars, calls, ticks, nextTickAt,
                  nextPingAt, isStreaming, stopped >>

\* PriceStreamer.stop -> TradingViewScraper.cleanup, after which the process
\* exits: the timers are cleared, the sockets closed, the registry cleared, every
\* page and the browser closed, pages and activeTickers cleared.  What was
\* suspended at an await never resumes.
Stop ==
  /\ ~stopped
  /\ NoTick
  /\ stopped' = TRUE
  /\ isStreaming' = FALSE
  /\ wsState' = [v \in Viewers |-> "none"]
  /\ clients' = << >>
  /\ openPages' = {}
  /\ browser' = FALSE
  /\ pages' = << >>
  /\ activeTickers' = << >>
  /\ calls' = [c \in CallIds |-> IdleCall]
  /\ ticks' = [k \in TickIds |-> IdleTick]
  /\ sent' = NoMsg
  /\ NoReturn
  /\ UNCHANGED << lastPriceUpdate, nextPage, histVars, hookVars, now, nextTickAt,
                  nextPingAt >>

Next ==
  \/ \E raw \in RawInputs : AddTicker(raw)
  \/ \E raw \in RawInputs : PostTickers(raw)
  \/ \E c \in CallIds : AddNewPage(c)
  \/ \E c \in CallIds : AddNavOk(c)
  \/ \E c \in CallIds : AddNavNotFound(c)
  \/ \E c \in CallIds : AddNotFoundThrown(c)
  \/ \E c \in CallIds : AddNavThrows(c)
  \/ \E c \in CallIds : AddCatchClosed(c)
  \/ \E raw \in RemoveInputs : RemoveTicker(raw)
  \/ \E raw \in RemoveInputs : DeleteTickers(raw)
  \/ \E c \in CallIds : RemoveFinish(c)
  \/ \E k \in TickIds : TickStart(k)
  \/ \E k \in TickIds, i \in PageIds, price \in SourcePrices :
       i <= Len(ticks[k].res) /\ RetrievePrice(k, i, price)
  \/ \E k \in TickIds, i \in PageIds :
       i <= Len(ticks[k].res) /\ RetrieveOk(k, i)
  \/ \E k \in TickIds, i \in PageIds :
       i <= Len(ticks[k].res) /\ RetrieveNull(k, i)
  \/ \E v \in Viewers : Connect(v)
  \/ StartStreaming
  \/ \E d \in TimeSteps : Advance(d)
  \/ Stop

Spec == Init /\ [][Next]_vars

(***************************************************************************)
(* The validation of add, exercised with ValidationInputs: the streamer    *)
(* starts, viewers connect, and add is called directly and through POST.   *)
(***************************************************************************)
NextValidate ==
  \/ \E raw \in ValidationInputs : AddTicker(raw)
  \/ \E raw \in ValidationInputs : PostTickers(raw)
  \/ \E c \in CallIds : AddNewPage(c)
  \/ \E c \in CallIds : AddNavOk(c)
  \/ \E v \in Viewers : Connect(v)
  \/ StartStreaming

SpecValidate == Init /\ [][NextValidate]_vars

(***************************************************************************)
(* Properties.                                                             *)
(***************************************************************************)
\* The session of ticker t: the page registered for t is open in the browser.
SessionOpen(t) == t \in DOMAIN pages /\ \E q \in openPages : q.id = pages[t]

TrackedWithSession(t) == IsTracked(t) /\ SessionOpen(t)

RemoveInFlight(t) ==
  \E c \in CallIds : calls[c].op = "remove" /\ calls[c].ticker = t

Tickers == {Normalize(raw) : raw \in RemoveInputs}

NoDuplicates(list) == Cardinality(Range(list)) = Len(list)

\* C1: at any time, also while add and remove calls are in flight, at most one
\* page is open in the browser for a ticker; two concurrent add(X) never leave
\* two pages for X open.
C1_OneSessionPerInstrument ==
  \A p, q \in openPages : p.ticker = q.ticker => p.id = q.id

\* C2: add and remove on one ticker behave as if executed one at a time; in
\* particular a ticker that add has made tracked with an open session stays so
\* as long as no remove of it is in flight or starts (and the streamer is not
\* stopped).
C2_AddedStaysTracked ==
  [][\A t \in Tickers :
       (TrackedWithSession(t) /\ ~RemoveInFlight(t) /\ ~RemoveInFlight(t)'
          /\ ~stopped')
         => TrackedWithSession(t)']_vars

\* C3: add(X) called for a tracked X returns success and changes neither the
\* tracked set, nor the session map, nor the cache timestamps, nor the open
\* pages, and suspends no call; the tracked list never holds a ticker twice.
C3_AddTrackedIsNoOp ==
  [][\A raw \in RawInputs :
       (IsTracked(Normalize(raw)) /\ AddTicker(raw))
         => /\ returned'.op = "add" /\ returned'.res = "ok"
            /\ UNCHANGED << scraperVars, calls, ticks >>
            /\ NoDuplicates(activeTickers')]_vars

\* An add of a tracked ticker has just returned success.
C3_Witness ==
  /\ returned.op = "add" /\ returned.res = "ok"
  /\ returned.reason = "already tracked"
  /\ IsTracked(Normalize(returned.arg))
  /\ SessionOpen(Normalize(returned.arg))

C5_NoRemovedInBatch ==
  (sent.type = "prices" /\ sent.to # {})
    => \A i \in 1..Len(sent.data) : sent.data[i].ticker \notin removed

\* C6: a tick that starts after remove(X) has returned, X not added again since,
\* takes a snapshot of the tracked set without X, so it retrieves nothing for X.
C6_TickSkipsRemoved ==
  snapshot.taken => \A t \in removed : t \notin Range(snapshot.list)

\* A tick has just started, after the remove of a tracked ticker returned.
C6_Witness ==
  /\ snapshot.taken
  /\ removed # {}
  /\ nextPage > 1

\* C7: a cache timestamp exists only for a ticker that has a session: none is
\* left after remove(X) nor after shutdown, and a ticker added again starts
\* without one.
C7_CacheMirrorsSession ==
  \A t \in DOMAIN lastPriceUpdate : t \in DOMAIN pages

\* The rule of the identifiers: upper-case letters and digits, 3 to 15 of them.
RuleOk(t) == IsAlnumUpper(t) /\ Len(t) >= 3 /\ Len(t) <= 15

\* C8: add called with an identifier outside the rule fails with
\* InvalidIdentifier (POST with a 400 reply) in the step of the call: no page
\* is asked for, no call is suspended, the tracked set, the sessions and the
\* registry are unchanged and no ticker list is sent.
C8_InvalidRejectedEarly ==
  [][\A raw \in ValidationInputs :
       ~RuleOk(Normalize(raw)) =>
         /\ AddTicker(raw)
              => /\ returned'.op = "add" /\ returned'.res = "InvalidIdentifier"
                 /\ UNCHANGED << scraperVars, calls, ticks, clients, wsState >>
                 /\ sent' = NoMsg
         /\ PostTickers(raw)
              => /\ returned'.op = "POST" /\ returned'.reason = "400"
                 /\ UNCHANGED << scraperVars, calls, ticks, clients, wsState >>
                 /\ sent' = NoMsg]_vars

\* An add outside the rule has just been refused while a ticker is tracked, a
\* viewer is connected and the browser is up.
C8_Witness ==
  /\ returned.op = "add" /\ returned.res = "InvalidIdentifier"
  /\ ~RuleOk(Normalize(returned.arg))
  /\ activeTickers # << >>
  /\ DOMAIN clients # {}
  /\ browser

\* C9: add fails with InvalidIdentifier for exactly the identifiers that,
\* normalized, are outside the rule.
C9_AcceptsExactlyTheRule ==
  returned.op = "add"
    => (returned.res = "InvalidIdentifier" <=> ~RuleOk(Normalize(returned.arg)))

\* C10: when add(X) fails with SourceUnavailable, X is not tracked and no
\* message has been sent.
C10_FailedAddNotTracked ==
  (returned.op = "add" /\ returned.res = "SourceUnavailable")
    => (~IsTracked(returned.arg) /\ sent = NoMsg)

(***************************************************************************)
(* The ticker list, exercised with ListInputs: tickers are added and       *)
(* removed in every order while viewers connect.                           *)
(***************************************************************************)
NextList ==
  \/ \E raw \in ListInputs : AddTicker(raw)
  \/ \E c \in CallIds : AddNewPage(c)
  \/ \E c \in CallIds : AddNavOk(c)
  \/ \E raw \in ListInputs : RemoveTicker(raw)
  \/ \E c \in CallIds : RemoveFinish(c)
  \/ \E v \in Viewers : Connect(v)
  \/ StartStreaming

SpecList == Init /\ [][NextList]_vars

\* C11: getActiveTickers returns exactly the tracked tickers, each once, in
\* strictly ascending order of their code units, whatever was added and removed.
C11_ListSortedExact ==
  /\ Range(GetActiveTickers) = Range(activeTickers)
  /\ Len(GetActiveTickers) = Cardinality(Range(activeTickers))
  /\ \A i, j \in 1..Len(GetActiveTickers) :
       i < j => StrLess(GetActiveTickers[i], GetActiveTickers[j])

\* Two tickers are tracked, added in descending order.
C11_Witness ==
  /\ Len(activeTickers) >= 2
  /\ StrLess(activeTickers[2], activeTickers[1])
  /\ GetActiveTickers # activeTickers

(***************************************************************************)
(* The price cache: one ticker is tracked and its page open, the streamer  *)
(* runs, and getPrice is called at any multiple of CacheStep, by the tick  *)
(* and by itself.                                                          *)
(***************************************************************************)
CacheTicker == <<"B", "U", "S", "D">>
CacheSteps == {PRICE_CACHE_DURATION \div 2}

InitCache ==
  /\ browser = TRUE
  /\ pages = [t \in {CacheTicker} |-> 1]
  /\ activeTickers = <<CacheTicker>>
  /\ lastPriceUpdate = << >>
  /\ openPages = {[id |-> 1, ticker |-> CacheTicker]}
  /\ nextPage = 2
  /\ calls = [c \in CallIds |-> IdleCall]
  /\ ticks = [k \in TickIds |-> IdleTick]
  /\ clients = << >>
  /\ wsState = [v \in Viewers |-> "none"]
  /\ isStreaming = TRUE
  /\ stopped = FALSE
  /\ now = PRICE_CACHE_DURATION
  /\ nextTickAt = STREAM_INTERVAL
  /\ nextPingAt = PING_INTERVAL
  /\ returned = NoResult
  /\ sent = NoMsg
  /\ snapshot = NoSnap
  /\ removed = {}
  /\ HookInit

NextCache ==
  \/ \E raw \in CacheInputs : GetPrice(raw)
  \/ \E c \in CallIds : GetPriceRead(c)
  \/ \E c \in CallIds : GetPriceNoPrice(c)
  \/ \E c \in CallIds : GetPriceDone(c)
  \/ \E k \in TickIds : TickStart(k)
  \/ \E k \in TickIds, i \in PageIds, price \in SourcePrices :
       i <= Len(ticks[k].res) /\ RetrievePrice(k, i, price)
  \/ \E k \in TickIds, i \in PageIds :
       i <= Len(ticks[k].res) /\ RetrieveOk(k, i)
  \/ \E k \in TickIds, i \in PageIds :
       i <= Len(ticks[k].res) /\ RetrieveNull(k, i)
  \/ \E d \in CacheSteps : Advance(d)

SpecCache == InitCache /\ [][NextCache]_vars

\* The last fetch of ticker t is less than PRICE_CACHE_DURATION old.
CacheHit(t) ==
  t \in DOMAIN lastPriceUpdate /\ now - lastPriceUpdate[t] < PRICE_CACHE_DURATION

\* The retrievals in flight for ticker t: the time each started.
RetrievalStarts(t) ==
  [c \in {d \in CallIds : calls[d].op = "getPrice" /\ calls[d].ticker = t}
     |-> calls[c].t0]

\* C12: a getPrice call for a ticker with an open page, made less
\* than PRICE_CACHE_DURATION after its last fetch, returns the quote.
C12_CacheHitReturnsQuote ==
  [][\A raw \in CacheInputs :
       (GetPrice(raw) /\ CacheHit(Normalize(raw)) /\ SessionOpen(Normalize(raw)))
         => returned'.res = "quote"]_vars

\* C13 as stated, its conclusion: no two retrievals for one ticker start less
\* than PRICE_CACHE_DURATION apart.
C13_NoTwoQueriesWithinTTL ==
  \A t \in Range(activeTickers) :
    \A c, d \in DOMAIN RetrievalStarts(t) :
      c # d =>
        \/ RetrievalStarts(t)[c] - RetrievalStarts(t)[d] >= PRICE_CACHE_DURATION
        \/ RetrievalStarts(t)[d] - RetrievalStarts(t)[c] >= PRICE_CACHE_DURATION

\* C13 as the code has it: a getPrice call made less than PRICE_CACHE_DURATION
\* after the start of the last fetch that completed starts no retrieval; a call
\* made later, or with no fetch completed, for a ticker with a page starts
\* exactly one, whatever is in flight.
C13_GateOnCompletedFetch ==
  [][\A raw \in CacheInputs :
       GetPrice(raw) =>
         IF CacheHit(Normalize(raw)) \/ Normalize(raw) \notin DOMAIN pages
         THEN calls' = calls /\ returned'.res = "null"
         ELSE /\ returned' = NoResult
              /\ Cardinality({c \in CallIds : calls'[c] # calls[c]}) = 1
              /\ \A c \in CallIds :
                   calls'[c] # calls[c]
                     => /\ calls[c].op = "idle"
                        /\ calls'[c].op = "getPrice"
                        /\ calls'[c].ticker = Normalize(raw)
                        /\ calls'[c].t0 = now]_vars

\* A retrieval has just started for a ticker whose last fetch is old enough.
C13_Witness ==
  \E c \in CallIds :
    /\ calls[c].op = "getPrice" /\ calls[c].pc = "price"
    /\ calls[c].t0 = now
    /\ calls[c].ticker \in DOMAIN lastPriceUpdate
    /\ now - lastPriceUpdate[calls[c].ticker] >= PRICE_CACHE_DURATION

(***************************************************************************)
(* The polling ticks by themselves: two tickers are tracked, each with its *)
(* page open, the streamer runs and the interval fires every               *)
(* STREAM_INTERVAL; each retrieval of a tick succeeds or fails.            *)
(***************************************************************************)
StreamTickers == << <<"B", "U", "S", "D">>, <<"B", "U", "S">> >>

InitStream ==
  /\ browser = TRUE
  /\ pages = [t \in Range(StreamTickers) |-> IF t = StreamTickers[1] THEN 1 ELSE 2]
  /\ activeTickers = StreamTickers
  /\ lastPriceUpdate = << >>
  /\ openPages = {[id |-> i, ticker |-> StreamTickers[i]] : i \in 1..2}
  /\ nextPage = 3
  /\ calls = [c \in CallIds |-> IdleCall]
  /\ ticks = [k \in TickIds |-> IdleTick]
  /\ clients = << >>
  /\ wsState = [v \in Viewers |-> "none"]
  /\ isStreaming = TRUE
  /\ stopped = FALSE
  /\ now = 0
  /\ nextTickAt = STREAM_INTERVAL
  /\ nextPingAt = PING_INTERVAL
  /\ returned = NoResult
  /\ sent = NoMsg
  /\ snapshot = NoSnap
  /\ removed = {}
  /\ HookInit

NextStream ==
  \/ \E k \in TickIds : TickStart(k)
  \/ \E k \in TickIds, i \in PageIds, price \in SourcePrices :
       i <= Len(ticks[k].res) /\ RetrievePrice(k, i, price)
  \/ \E k \in TickIds, i \in PageIds :
       i <= Len(ticks[k].res) /\ RetrieveOk(k, i)
  \/ \E k \in TickIds, i \in PageIds :
       i <= Len(ticks[k].res) /\ RetrieveNull(k, i)
  \/ \E v \in Viewers : Connect(v)
  \/ \E d \in TimeSteps : Advance(d)

SpecStream == InitStream /\ [][NextStream]_vars

\* The step completes tick k: Promise.all of getAllPrices resolves in it.
TickCompletes(k) ==
  ticks[k].st = "run" /\ ticks'[k].st = "idle" /\ ~stopped'

\* The retrievals of tick k that came to a quote, the one the completing step
\* finishes included.
Obtained(k) ==
  {i \in 1..Len(ticks[k].res) : ticks[k].res[i].k \in {"quote", "priced"}}

\* The price retrieval i of tick k read from the source.
ObtainedPrice(k, i) ==
  IF ticks[k].res[i].k = "quote" THEN ticks[k].res[i].quote.price
  ELSE ticks[k].res[i].price

\* C14: the step that completes a tick sends one prices message whose
\* data is exactly the quotes the tick obtained, one per ticker retrieved, or
\* nothing at all when it obtained none; no other step of a tick sends a prices
\* message, and a tick that starts no retrieval sends nothing.
C14_TickBroadcastsItsQuotes ==
  [][/\ \A k \in TickIds :
          TickCompletes(k) =>
            IF Obtained(k) = {}
            THEN sent' = NoMsg
            ELSE /\ sent'.type = "prices"
                 /\ Len(sent'.data) = Cardinality(Obtained(k))
                 /\ \A i \in Obtained(k) :
                      \E j \in 1..Len(sent'.data) :
                        /\ sent'.data[j].ticker = ticks[k].snap[i]
                        /\ sent'.data[j].price = ObtainedPrice(k, i)
     /\ sent'.type = "prices" => \E k \in TickIds : TickCompletes(k)
     /\ snapshot'.taken => sent' = NoMsg]_vars

\* A tick has just sent a batch with the quotes of both tickers.
C14_Witness ==
  /\ sent.type = "prices"
  /\ Len(sent.data) = 2
  /\ sent.data[1].ticker # sent.data[2].ticker
  /\ \A k \in TickIds : ticks[k].st = "idle"

\* Every await of getPrice is bounded by a timeout, so every retrieval of a tick
\* comes to a result; the interval fires and time passes.
Resolve ==
  \E k \in TickIds, i \in PageIds :
    /\ i <= Len(ticks[k].res)
    /\ \/ \E price \in SourcePrices : RetrievePrice(k, i, price)
       \/ RetrieveOk(k, i)
       \/ RetrieveNull(k, i)

SpecStreamFair == SpecStream /\ WF_vars(Resolve)

\* The step in which retrieval i of tick k comes to null.
Fails(k, i) ==
  /\ ticks[k].st = "run" /\ ~stopped'
  /\ i <= Len(ticks[k].res)
  /\ ticks[k].res[i].k = "pend"
  /\ \/ ticks'[k].st = "idle"
     \/ ticks'[k].st = "run" /\ ticks'[k].res[i].k = "null"

\* C15: when one retrieval of a tick fails, the other retrievals are
\* left as they are, the tick completes, its batch holds the quote of every
\* retrieval that succeeded, and no error message is ever sent.
C15_FailureIsContained ==
  /\ [](sent.type # "error")
  /\ [][\A k \in TickIds, i \in PageIds :
          Fails(k, i) =>
            /\ ticks'[k].st = "run" =>
                 \A j \in 1..Len(ticks[k].res) :
                   j # i => ticks'[k].res[j] = ticks[k].res[j]
            /\ ticks'[k].st = "idle" =>
                 /\ sent'.type = IF Obtained(k) = {} THEN "none" ELSE "prices"
                 /\ \A j \in Obtained(k) :
                      \E m \in 1..Len(sent'.data) :
                        sent'.data[m] = ticks[k].res[j].quote]_vars
  /\ \A k \in TickIds : (ticks[k].st = "run") ~> (ticks[k].st = "idle")

\* A tick over two tickers, each with a page, has just sent a batch of one
\* quote: the other retrieval failed.
C15_Witness ==
  /\ sent.type = "prices"
  /\ Len(sent.data) = 1
  /\ Len(activeTickers) = 2
  /\ \A t \in Range(activeTickers) : SessionOpen(t)

(***************************************************************************)
(* The same ticks with a source that recovers: a retrieval may fail in the *)
(* ticks started before HealTime and in none started later.                *)
(***************************************************************************)
HealTime == 2 * STREAM_INTERVAL

RetrieveNullEarly(k, i) ==
  /\ ticks[k].t0 < HealTime
  /\ RetrieveNull(k, i)

NextRetry ==
  \/ \E k \in TickIds : TickStart(k)
  \/ \E k \in TickIds, i \in PageIds, price \in SourcePrices :
       i <= Len(ticks[k].res) /\ RetrievePrice(k, i, price)
  \/ \E k \in TickIds, i \in PageIds :
       i <= Len(ticks[k].res) /\ RetrieveOk(k, i)
  \/ \E k \in TickIds, i \in PageIds :
       i <= Len(ticks[k].res) /\ RetrieveNullEarly(k, i)
  \/ \E v \in Viewers : Connect(v)
  \/ \E d \in TimeSteps : Advance(d)

\* setInterval keeps firing and the clock keeps running; a retrieval the source
\* answers is read to its end.
FairRetry ==
  /\ WF_vars(\E k \in TickIds : TickStart(k))
  /\ WF_vars(\E d \in TimeSteps : Advance(d))
  /\ WF_vars(\E k \in TickIds, i \in PageIds, price \in SourcePrices :
               i <= Len(ticks[k].res) /\ RetrievePrice(k, i, price))
  /\ WF_vars(\E k \in TickIds, i \in PageIds :
               i <= Len(ticks[k].res) /\ RetrieveOk(k, i))

SpecRetry == InitStream /\ [][NextRetry]_vars /\ FairRetry

\* C16: a failed retrieval leaves the ticker tracked, its page
\* registered and its cache timestamp as it was; every tick starts a retrieval
\* for every tracked ticker with a page, whatever failed before; and with a
\* source that answers from HealTime on, every ticker comes to be in a batch.
C16_FailureIsTransient ==
  /\ [][\A k \in TickIds, i \in PageIds :
          Fails(k, i) =>
            /\ activeTickers' = activeTickers
            /\ pages' = pages
            /\ lastPriceUpdate' = lastPriceUpdate]_vars
  /\ [][snapshot'.taken =>
          \A i \in 1..Len(activeTickers) :
            activeTickers[i] \in DOMAIN pages =>
              \E k \in TickIds :
                /\ ticks'[k].st = "run" /\ ticks'[k].t0 = now
                /\ ticks'[k].snap[i] = activeTickers[i]
                /\ ticks'[k].res[i].k = "pend"]_vars
  /\ \A t \in Range(StreamTickers) :
       <>(sent.type = "prices"
            /\ \E j \in 1..Len(sent.data) : sent.data[j].ticker = t)

\* The tick at HealTime retries a ticker that no tick has fetched yet: its
\* retrieval in the tick before failed.
C16_Witness ==
  \E k \in TickIds :
    /\ ticks[k].st = "run" /\ ticks[k].t0 = HealTime
    /\ ticks[k].res[1].k = "pend"
    /\ ticks[k].snap[1] \notin DOMAIN lastPriceUpdate
    /\ IsTracked(ticks[k].snap[1])

\* C17: a ticker whose add returns success is tracked; it stays
\* tracked until a remove of it returns or the streamer stops; every tick takes
\* every tracked ticker into its snapshot; and the step completing a tick sends
\* the quote of every retrieval that succeeded, in a prices message, to every
\* registered viewer with an open socket.
C17_AddedIsPolled ==
  /\ [][(returned'.op = "add" /\ returned'.res = "ok")
          => Normalize(returned'.arg) \in Range(activeTickers')]_vars
  /\ [][\A t \in Tickers :
          (IsTracked(t) /\ ~IsTracked(t)')
            => \/ stopped'
               \/ returned'.op = "remove" /\ Normalize(returned'.arg) = t]_vars
  /\ [][snapshot'.taken =>
          \A t \in Tickers : IsTracked(t) => t \in Range(snapshot'.list)]_vars
  /\ [][\A k \in TickIds :
          TickCompletes(k) =>
            \A i \in Obtained(k) :
              /\ sent'.type = "prices"
              /\ sent'.to = OpenClients
              /\ \E j \in 1..Len(sent'.data) :
                   /\ sent'.data[j].ticker = ticks[k].snap[i]
                   /\ sent'.data[j].price = ObtainedPrice(k, i)]_vars

\* The quote of a ticker that was added and is tracked has just been sent to a
\* viewer.
C17_Witness ==
  /\ sent.type = "prices"
  /\ sent.to # {}
  /\ \E j \in 1..Len(sent.data) : IsTracked(sent.data[j].ticker)
  /\ nextPage > 1

(***************************************************************************)
(* The viewers: two tickers are tracked and polled as above, and viewers   *)
(* connect, their sockets break or close, and the close is handled.        *)
(* A socket is "none" (no connection), "open", "broken" (readyState is     *)
(* OPEN and send throws) or "closed" (readyState is not OPEN and the close *)
(* event is still to be handled).                                          *)
(***************************************************************************)
HubViewers == 1..(MaxViewers + 1)

InitHub ==
  /\ browser = TRUE
  /\ pages = [t \in Range(StreamTickers) |-> IF t = StreamTickers[1] THEN 1 ELSE 2]
  /\ activeTickers = StreamTickers
  /\ lastPriceUpdate = << >>
  /\ openPages = {[id |-> i, ticker |-> StreamTickers[i]] : i \in 1..2}
  /\ nextPage = 3
  /\ calls = [c \in CallIds |-> IdleCall]
  /\ ticks = [k \in TickIds |-> IdleTick]
  /\ clients = << >>
  /\ wsState = [v \in HubViewers |-> "none"]
  /\ isStreaming = TRUE
  /\ stopped = FALSE
  /\ now = 0
  /\ nextTickAt = STREAM_INTERVAL
  /\ nextPingAt = PING_INTERVAL
  /\ returned = NoResult
  /\ sent = NoMsg
  /\ snapshot = NoSnap
  /\ removed = {}
  /\ HookInit

\* The socket of a viewer starts to throw on send.
SocketBreaks(v) ==
  /\ ~stopped
  /\ NoTick
  /\ wsState[v] = "open"
  /\ wsState' = [wsState EXCEPT ![v] = "broken"]
  /\ sent' = NoMsg
  /\ NoReturn
  /\ UNCHANGED << scraperVars, clockVars, hookVars, histVars, calls, ticks, clients >>

\* The socket of a viewer leaves the OPEN state.
SocketCloses(v) ==
  /\ ~stopped
  /\ NoTick
  /\ wsState[v] \in {"open", "broken"}
  /\ wsState' = [wsState EXCEPT ![v] = "closed"]
  /\ sent' = NoMsg
  /\ NoReturn
  /\ UNCHANGED << scraperVars, clockVars, hookVars, histVars, calls, ticks, clients >>

\* ws.on('close'): the viewer is deleted from the registry.
CloseEvent(v) ==
  /\ ~stopped
  /\ NoTick
  /\ wsState[v] = "closed"
  /\ wsState' = [wsState EXCEPT ![v] = "none"]
  /\ clients' = MapDelete(clients, v)
  /\ sent' = NoMsg
  /\ NoReturn
  /\ UNCHANGED << scraperVars, clockVars, hookVars, histVars, calls, ticks >>

\* What a viewer may send: text that is not JSON, and the JSON messages of type
\* ping, getTickers and any other type.
Payloads == {"malformed", "ping", "getTickers", "other"}

\* The reply handleClientMessage and the catch block of the message handler give
\* to a payload; nothing for an unknown type.
Reply(m) ==
  IF m = "malformed" THEN [type |-> "error", data |-> << >>]
  ELSE IF m = "ping" THEN [type |-> "pong", data |-> << >>]
  ELSE IF m = "getTickers" THEN [type |-> "activeTickers", data |-> GetActiveTickers]
  ELSE [type |-> "none", data |-> << >>]

\* A message handler that drops the viewer that sent text that is not JSON.
ClientMessageDrops(v, m) ==
  /\ ~stopped
  /\ NoTick
  /\ wsState[v] \in {"open", "broken"}
  /\ IF m = "malformed"
     THEN /\ sent' = NoMsg
          /\ clients' = MapDelete(clients, v)
          /\ wsState' = [wsState EXCEPT ![v] = "closed"]
     ELSE /\ sent' = [type |-> Reply(m).type, data |-> Reply(m).data,
                      to |-> IF wsState[v] = "open" /\ Reply(m).type # "none"
                             THEN {v} ELSE {}]
          /\ UNCHANGED << clients, wsState >>
  /\ NoReturn
  /\ UNCHANGED << scraperVars, clockVars, hookVars, histVars, calls, ticks >>

\* ws.on('message'): the payload is parsed and handled, and the reply goes
\* through sendToClient: written if the socket is OPEN and takes the write; if
\* the send throws, the viewer is deleted from the registry.
ClientMessage(v, m) ==
  /\ ~stopped
  /\ NoTick
  /\ wsState[v] \in {"open", "broken"}
  /\ IF Reply(m).type = "none"
     THEN /\ sent' = NoMsg
          /\ clients' = clients
     ELSE IF wsState[v] = "open"
     THEN /\ sent' = [type |-> Reply(m).type, data |-> Reply(m).data, to |-> {v}]
          /\ clients' = clients
     ELSE /\ sent' = NoMsg
          /\ clients' = MapDelete(clients, v)
  /\ wsState' = wsState
  /\ NoReturn
  /\ UNCHANGED << scraperVars, clockVars, hookVars, histVars, calls, ticks >>

NextHub ==
  \/ \E k \in TickIds : TickStart(k)
  \/ \E k \in TickIds, i \in PageIds, price \in SourcePrices :
       i <= Len(ticks[k].res) /\ RetrievePrice(k, i, price)
  \/ \E k \in TickIds, i \in PageIds :
       i <= Len(ticks[k].res) /\ RetrieveOk(k, i)
  \/ \E k \in TickIds, i \in PageIds :
       i <= Len(ticks[k].res) /\ RetrieveNull(k, i)
  \/ \E v \in HubViewers : Connect(v)
  \/ \E v \in HubViewers : SocketBreaks(v)
  \/ \E v \in HubViewers : SocketCloses(v)
  \/ \E v \in HubViewers : CloseEvent(v)
  \/ \E v \in HubViewers, m \in Payloads : ClientMessage(v, m)
  \/ \E d \in TimeSteps : Advance(d)

SpecHub == InitHub /\ [][NextHub]_vars

\* C18: the step that accepts a connection registers the viewer and
\* sends it, and no one else, an activeTickers message with the tracked tickers
\* in ascending order; no step sends anything to a viewer that is not registered
\* yet, so nothing reaches the viewer before that message.
C18_GreetingComesFirst ==
  [][\A v \in HubViewers :
       /\ (wsState[v] = "none" /\ wsState'[v] = "open") =>
            /\ v \in DOMAIN clients'
            /\ clients'[v].lastPing = now
            /\ sent' = [type |-> "activeTickers",
                        data |-> SortStrings(activeTickers),
                        to |-> {v}]
       /\ (v \in sent'.to /\ v \notin DOMAIN clients) =>
            /\ wsState[v] = "none"
            /\ sent'.type = "activeTickers"]_vars

\* A viewer has just been greeted with the two tickers, in another order than
\* they were added in, while another viewer is registered.
C18_Witness ==
  /\ sent.type = "activeTickers"
  /\ Len(sent.data) = 2
  /\ sent.data # activeTickers
  /\ \E v \in HubViewers :
       /\ sent.to = {v}
       /\ \E u \in (DOMAIN clients) \ {v} : wsState[u] = "open"

\* How many times viewer v is in the sequence of deliveries.
Times(v, seq) == Cardinality({i \in 1..Len(seq) : seq[i] = v})

\* C19: the broadcast of a batch writes the message once to every
\* registered viewer whose socket is open and takes the write, and leaves each of
\* them registered as it was; every other registered viewer is written to not at
\* all and is unregistered; no viewer is registered by it, the tick ends and no
\* error message is sent.
C19_BroadcastIsolatesFailures ==
  [][sent'.type = "prices" =>
       /\ \A v \in DOMAIN clients :
            IF wsState[v] = "open"
            THEN /\ Times(v, BroadcastWalk(Ascending(DOMAIN clients),
                                           NoWalk).delivered) = 1
                 /\ v \in sent'.to
                 /\ v \in DOMAIN clients' /\ clients'[v] = clients[v]
            ELSE /\ v \notin sent'.to
                 /\ v \notin DOMAIN clients'
       /\ DOMAIN clients' \subseteq DOMAIN clients
       /\ sent'.to \subseteq DOMAIN clients
       /\ wsState' = wsState
       /\ \E k \in TickIds : TickCompletes(k)]_vars

\* A batch has just been written to a viewer while another viewer, whose socket
\* throws, is no longer registered.
C19_Witness ==
  /\ sent.type = "prices"
  /\ \E v, u \in HubViewers :
       /\ wsState[v] = "broken" /\ v \notin DOMAIN clients
       /\ u > v /\ u \in sent.to /\ u \in DOMAIN clients

(***************************************************************************)
(* The heartbeat: the streamer runs with nothing tracked, so the polling   *)
(* ticks send nothing; viewers connect, acknowledge pings or keep silent,  *)
(* and pingClients runs every PING_INTERVAL.  The clock is observed at     *)
(* half periods, up to MaxRounds periods.                                  *)
(***************************************************************************)
MaxRounds == 4
PingSteps == {PING_INTERVAL \div 2}

InitPing ==
  /\ browser = TRUE
  /\ pages = << >>
  /\ activeTickers = << >>
  /\ lastPriceUpdate = << >>
  /\ openPages = {}
  /\ nextPage = 1
  /\ calls = [c \in CallIds |-> IdleCall]
  /\ ticks = [k \in TickIds |-> IdleTick]
  /\ clients = << >>
  /\ wsState = [v \in HubViewers |-> "none"]
  /\ isStreaming = TRUE
  /\ stopped = FALSE
  /\ now = 0
  /\ nextTickAt = STREAM_INTERVAL
  /\ nextPingAt = PING_INTERVAL
  /\ returned = NoResult
  /\ sent = NoMsg
  /\ snapshot = NoSnap
  /\ removed = {}
  /\ HookInit

\* ws.on('pong'): the viewer acknowledged a ping.
Pong(v) ==
  /\ ~stopped
  /\ NoTick
  /\ v \in DOMAIN clients /\ wsState[v] = "open"
  /\ clients[v].lastPing # now
  /\ clients' = [clients EXCEPT ![v].lastPing = now]
  /\ sent' = NoMsg
  /\ NoReturn
  /\ UNCHANGED << scraperVars, clockVars, hookVars, histVars, calls, ticks, wsState >>

\* The viewers pingClients puts on deadClients: those whose socket is not OPEN or
\* throws on ping, and those whose last acknowledgement is more than
\* CLIENT_TIMEOUT old.
DeadOnPing ==
  {v \in DOMAIN clients :
     \/ wsState[v] # "open"
     \/ now - clients[v].lastPing > CLIENT_TIMEOUT}

\* A pingClients without the timeout test: only dead sockets are dropped.
PingClientsNoTimeout ==
  /\ ~stopped /\ isStreaming
  /\ NoTick
  /\ now = nextPingAt
  /\ nextPingAt' = now + PING_INTERVAL
  /\ clients' = [v \in {u \in DOMAIN clients : wsState[u] = "open"} |-> clients[v]]
  /\ sent' = NoMsg
  /\ NoReturn
  /\ UNCHANGED << scraperVars, histVars, hookVars, calls, ticks, wsState, now,
                  nextTickAt, isStreaming, stopped >>

\* A pingClients that takes PING_INTERVAL for the timeout.
PingClientsImpatient ==
  /\ ~stopped /\ isStreaming
  /\ NoTick
  /\ now = nextPingAt
  /\ nextPingAt' = now + PING_INTERVAL
  /\ clients' = [v \in {u \in DOMAIN clients :
                          /\ wsState[u] = "open"
                          /\ now - clients[u].lastPing < PING_INTERVAL}
                  |-> clients[v]]
  /\ sent' = NoMsg
  /\ NoReturn
  /\ UNCHANGED << scraperVars, histVars, hookVars, calls, ticks, wsState, now,
                  nextTickAt, isStreaming, stopped >>

\* The ping interval fires: PriceStreamer.pingClients.
PingClients ==
  /\ ~stopped /\ isStreaming
  /\ NoTick
  /\ now = nextPingAt
  /\ nextPingAt' = now + PING_INTERVAL
  /\ clients' = [v \in (DOMAIN clients) \ DeadOnPing |-> clients[v]]
  /\ sent' = NoMsg
  /\ NoReturn
  /\ UNCHANGED << scraperVars, histVars, hookVars, calls, ticks, wsState, now,
                  nextTickAt, isStreaming, stopped >>

\* Time passes, never beyond the instant the ping interval fires.  The polling
\* ticks that fire meanwhile find nothing tracked and send nothing.
PingAdvance(d) ==
  /\ ~stopped /\ isStreaming
  /\ NoTick
  /\ activeTickers = << >>
  /\ \A k \in TickIds : ticks[k].st = "idle"
  /\ now + d <= MaxRounds * PING_INTERVAL
  /\ now + d <= nextPingAt
  /\ now' = now + d
  /\ nextTickAt' = now + d + STREAM_INTERVAL
  /\ NoReturn /\ NoSend
  /\ UNCHANGED << scraperVars, histVars, hookVars, calls, ticks, nextPingAt,
                  isStreaming, stopped >>

NextPing ==
  \/ \E v \in HubViewers : Connect(v)
  \/ \E v \in HubViewers : Pong(v)
  \/ \E v \in HubViewers : SocketCloses(v)
  \/ \E v \in HubViewers : CloseEvent(v)
  \/ \E raw \in RemoveInputs : RemoveNoPage(raw)
  \/ PingClients
  \/ \E d \in PingSteps : PingAdvance(d)

SpecPing == InitPing /\ [][NextPing]_vars

\* C20: a heartbeat round unregisters every viewer whose last
\* acknowledgement, or registration if it never acknowledged, is more than
\* CLIENT_TIMEOUT old, open socket or not, and keeps the other viewers with an
\* open socket; so no viewer is registered more than CLIENT_TIMEOUT +
\* PING_INTERVAL after its last acknowledgement, and nothing is sent to a viewer
\* that is not registered.
C20_SilentViewerEvicted ==
  /\ [][PingClients =>
          \A v \in DOMAIN clients :
            IF wsState[v] = "open" /\ now - clients[v].lastPing <= CLIENT_TIMEOUT
            THEN v \in DOMAIN clients' /\ clients'[v] = clients[v]
            ELSE v \notin DOMAIN clients']_vars
  /\ [](\A v \in DOMAIN clients :
          now - clients[v].lastPing <= CLIENT_TIMEOUT + PING_INTERVAL)
  /\ [](sent.to \subseteq DOMAIN clients)

\* A viewer whose socket is open has been unregistered by a heartbeat round
\* CLIENT_TIMEOUT + PING_INTERVAL after the start, the other viewer is still
\* registered, and a broadcast has just been sent to that one alone.
C20_Witness ==
  \E v, u \in HubViewers :
    /\ wsState[v] = "open" /\ v \notin DOMAIN clients
    /\ u \in DOMAIN clients
    /\ returned.op = "remove"
    /\ sent.type = "activeTickers" /\ sent.to = {u}
    /\ now = CLIENT_TIMEOUT + PING_INTERVAL

\* C21: the step in which an add or a remove returns success sends one
\* activeTickers message, to every registered viewer with an open socket, whose
\* data is the sorted tracked list as that step leaves it; after a remove the
\* list is without the ticker; and an activeTickers message is sent by no other
\* step than these and the greeting of a new viewer.
C21_ListBroadcastOnChange ==
  [][/\ (returned'.op \in {"add", "remove"} /\ returned'.res = "ok") =>
          /\ sent'.type = "activeTickers"
          /\ sent'.data = SortStrings(activeTickers')
          /\ sent'.to = OpenClients
          /\ returned'.op = "remove" =>
               Normalize(returned'.arg) \notin Range(sent'.data)
     /\ sent'.type = "activeTickers" =>
          \/ returned'.op \in {"add", "remove"} /\ returned'.res = "ok"
          \/ \E v \in Viewers : wsState[v] = "none" /\ wsState'[v] = "open"]_vars

\* The remove of a tracked ticker has just returned and the list has been sent
\* to a viewer.
C21_Witness ==
  /\ returned.op = "remove" /\ returned.res = "ok"
  /\ Normalize(returned.arg) \in removed
  /\ sent.type = "activeTickers"
  /\ sent.to # {}

\* C22: a payload that is not valid JSON, from a registered viewer
\* whose socket is open, is answered with an error message to that viewer alone;
\* the sockets, the registry, the scraper and the ticks are left as they are.
C22_MalformedIsAnswered ==
  [][\A v \in HubViewers :
       (ClientMessage(v, "malformed") /\ v \in DOMAIN clients /\ wsState[v] = "open")
         => /\ sent' = [type |-> "error", data |-> << >>, to |-> {v}]
            /\ UNCHANGED << clients, wsState, scraperVars, ticks, calls >>]_vars

\* A viewer has just been sent an error message while another viewer is
\* registered with an open socket.
C22_Witness ==
  /\ sent.type = "error"
  /\ \E v \in DOMAIN clients :
       /\ sent.to = {v}
       /\ wsState[v] = "open"
       /\ \E u \in (DOMAIN clients) \ {v} : wsState[u] = "open"

(***************************************************************************)
(* The viewer's side: the useWebSocket hook.  The application calls        *)
(* connect, disconnect and manualReconnect at any time; the channels open, *)
(* start to close and are lost; the timeouts the hook set fire when due.   *)
(* A channel's readyState is "connecting", "open", "closing" or "closed";  *)
(* "none" is a channel not created, or closed with nothing attached.       *)
(***************************************************************************)
maxReconnectAttempts == 3
reconnectDelay == 3000
MaxDelay == 10000
GraceDelay == 1000

CloseCodes == {1000, 1001, 1006}
MaxError == "Max reconnection attempts reached"

\* the server side stays as constructed while the hook is looked at
serverVars ==
  << scraperVars, calls, ticks, clients, wsState, isStreaming, stopped,
     nextTickAt, nextPingAt, returned, sent, snapshot, removed >>

RECURSIVE Pow(_, _)
Pow(b, n) == IF n = 0 THEN 1 ELSE b * Pow(b, n - 1)

Min(a, b) == IF a <= b THEN a ELSE b

\* A backoff that does not grow: every retry after reconnectDelay.
DelayFlat(n) == reconnectDelay

\* Math.min(reconnectDelay * Math.pow(1.5, n - 1), 10000)
Delay(n) == Min((reconnectDelay * Pow(3, n - 1)) \div Pow(2, n - 1), MaxDelay)

FreeChannel(socks, c) ==
  /\ socks[c].rs = "none"
  /\ \A d \in ChannelIds : d < c => socks[d].rs # "none"

FreeTimer(id) ==
  /\ \A t \in timers : t.id # id
  /\ \A j \in TimerIds : j < id => \E t \in timers : t.id = j

\* The handlers of a channel are set to null and close() is called on it: an
\* open or connecting channel starts to close, a closed one is left to the
\* garbage collector.
Release(s) ==
  IF s.rs \in {"open", "connecting", "closing"}
  THEN [rs |-> "closing", handlers |-> FALSE]
  ELSE NoSocket

Does(op) == did' = [op |-> op, code |-> 0]

\* connect() without its guard: a new channel whatever the present one does.
ConnectBodyNoGuard(ok) ==
  LET cleaned == IF wsRef = 0 THEN sockets
                 ELSE [sockets EXCEPT ![wsRef].handlers = TRUE]
  IN  IF ok
      THEN /\ \E c \in ChannelIds :
                /\ FreeChannel(cleaned, c)
                /\ wsRef' = c
                /\ sockets' = [cleaned EXCEPT
                                 ![c] = [rs |-> "connecting", handlers |-> TRUE]]
           /\ connectionState' = [connectionState EXCEPT !.isConnecting = TRUE,
                                                         !.lastError = NoError]
      ELSE /\ wsRef' = 0
           /\ sockets' = cleaned
           /\ connectionState' =
                [connectionState EXCEPT !.isConnecting = FALSE,
                                        !.lastError = "Failed to create connection"]

\* The body of connect(): nothing if the present channel is open or connecting;
\* otherwise the present channel is released, and `new WebSocket` gives a channel
\* with the handlers attached (ok) or throws.
ConnectBody(ok) ==
  IF wsRef # 0 /\ sockets[wsRef].rs \in {"open", "connecting"}
  THEN UNCHANGED << wsRef, sockets, connectionState >>
  ELSE LET cleaned == IF wsRef = 0 THEN sockets
                      ELSE [sockets EXCEPT ![wsRef] = Release(@)]
       IN  IF ok
           THEN /\ \E c \in ChannelIds :
                     /\ FreeChannel(cleaned, c)
                     /\ wsRef' = c
                     /\ sockets' = [cleaned EXCEPT
                                      ![c] = [rs |-> "connecting", handlers |-> TRUE]]
                /\ connectionState' = [connectionState EXCEPT !.isConnecting = TRUE,
                                                              !.lastError = NoError]
           ELSE /\ wsRef' = 0
                /\ sockets' = cleaned
                /\ connectionState' =
                     [connectionState EXCEPT !.isConnecting = FALSE,
                                             !.lastError = "Failed to create connection"]

\* The application (or the mount effect) calls connect().
HookConnect(ok) ==
  /\ ConnectBody(ok)
  /\ Does("connect")
  /\ lastCall' = "connect"
  /\ UNCHANGED << timers, reconnectTimeoutRef, reconnectAttemptsRef, now, serverVars >>

\* The timers disconnect() leaves pending: all but the one reconnectTimeoutRef
\* holds.
AfterClear == {t \in timers : t.id # reconnectTimeoutRef}

\* A disconnect() that closes the channel only if it is open: a connecting
\* channel stays held, with its handlers.
HookDisconnectOnlyOpen ==
  /\ timers' = AfterClear
  /\ reconnectTimeoutRef' = 0
  /\ IF wsRef # 0 /\ sockets[wsRef].rs = "connecting"
     THEN UNCHANGED << wsRef, sockets >>
     ELSE /\ wsRef' = 0
          /\ sockets' = IF wsRef = 0 THEN sockets
                        ELSE [sockets EXCEPT ![wsRef] = Release(@)]
  /\ connectionState' = [connectionState EXCEPT !.isConnected = FALSE,
                                                !.isConnecting = FALSE]
  /\ Does("disconnect")
  /\ lastCall' = "disconnect"
  /\ UNCHANGED << reconnectAttemptsRef, now, serverVars >>

\* The application (or the unmount effect) calls disconnect().
HookDisconnect ==
  /\ timers' = AfterClear
  /\ reconnectTimeoutRef' = 0
  /\ wsRef' = 0
  /\ sockets' = IF wsRef = 0 THEN sockets ELSE [sockets EXCEPT ![wsRef] = Release(@)]
  /\ connectionState' = [connectionState EXCEPT !.isConnected = FALSE,
                                                !.isConnecting = FALSE]
  /\ Does("disconnect")
  /\ lastCall' = "disconnect"
  /\ UNCHANGED << reconnectAttemptsRef, now, serverVars >>

\* The application calls manualReconnect(): the counter and the error are
\* reset, disconnect() runs, and connect() is set to run after GraceDelay.
ManualReconnect ==
  /\ reconnectAttemptsRef' = 0
  /\ \E id \in TimerIds :
       /\ \A t \in AfterClear : t.id # id
       /\ \A j \in TimerIds : j < id => \E t \in AfterClear : t.id = j
       /\ timers' = AfterClear \cup
                      {[id |-> id, kind |-> "grace", left |-> GraceDelay,
                        delay |-> GraceDelay]}
  /\ reconnectTimeoutRef' = 0
  /\ wsRef' = 0
  /\ sockets' = IF wsRef = 0 THEN sockets ELSE [sockets EXCEPT ![wsRef] = Release(@)]
  /\ connectionState' = [isConnected |-> FALSE, isConnecting |-> FALSE,
                         reconnectAttempts |-> 0, lastError |-> NoError]
  /\ Does("manualReconnect")
  /\ lastCall' = "manualReconnect"
  /\ UNCHANGED << now, serverVars >>

\* An onopen that leaves the attempt counter as it is.
SockOpensKeepsCount(c) ==
  /\ sockets[c].rs = "connecting"
  /\ sockets' = [sockets EXCEPT ![c].rs = "open"]
  /\ connectionState' = [connectionState EXCEPT !.isConnected = TRUE,
                                                !.isConnecting = FALSE,
                                                !.lastError = NoError]
  /\ Does("onopen")
  /\ UNCHANGED << wsRef, timers, reconnectTimeoutRef, reconnectAttemptsRef, now,
                  serverVars,
                  lastCall >>

\* The handshake of a connecting channel succeeds: onopen.
SockOpens(c) ==
  /\ sockets[c].rs = "connecting"
  /\ sockets' = [sockets EXCEPT ![c].rs = "open"]
  /\ IF sockets[c].handlers
     THEN /\ reconnectAttemptsRef' = 0
          /\ connectionState' = [isConnected |-> TRUE, isConnecting |-> FALSE,
                                 reconnectAttempts |-> 0, lastError |-> NoError]
     ELSE UNCHANGED << reconnectAttemptsRef, connectionState >>
  /\ Does("onopen")
  /\ UNCHANGED << wsRef, timers, reconnectTimeoutRef, now, serverVars,
                  lastCall >>

\* The server starts the closing handshake of an open channel.
SockClosing(c) ==
  /\ sockets[c].rs = "open"
  /\ sockets' = [sockets EXCEPT ![c].rs = "closing"]
  /\ Does("closing")
  /\ UNCHANGED << wsRef, timers, reconnectTimeoutRef, reconnectAttemptsRef,
                  connectionState, now, serverVars,
                  lastCall >>

\* onerror, when the channel failed, then the first part of onclose.
AfterLoss(err) ==
  [connectionState EXCEPT
     !.isConnected = FALSE,
     !.isConnecting = FALSE,
     !.lastError = IF err THEN "Connection error" ELSE @]

\* A channel is closed: with nothing attached nothing runs; otherwise onerror
\* (if the channel failed) and onclose run, and onclose sets a retry timeout
\* unless the code is 1000 or 1001 or the attempts are used up.
SockLost(c, err, code) ==
  /\ sockets[c].rs \in {"connecting", "open", "closing"}
  /\ (err \/ sockets[c].rs = "connecting") => code = 1006
  /\ IF ~sockets[c].handlers
     THEN /\ sockets' = [sockets EXCEPT ![c] = NoSocket]
          /\ did' = [op |-> "closed", code |-> code]
          /\ UNCHANGED << timers, reconnectTimeoutRef, reconnectAttemptsRef,
                          connectionState >>
     ELSE /\ sockets' = [sockets EXCEPT ![c].rs = "closed"]
          /\ did' = [op |-> "onclose", code |-> code]
          /\ IF code # 1000 /\ code # 1001
                /\ reconnectAttemptsRef < maxReconnectAttempts
             THEN /\ reconnectAttemptsRef' = reconnectAttemptsRef + 1
                  /\ connectionState' =
                       [AfterLoss(err) EXCEPT
                          !.reconnectAttempts = reconnectAttemptsRef + 1]
                  /\ \E id \in TimerIds :
                       /\ FreeTimer(id)
                       /\ timers' = timers \cup
                            {[id |-> id, kind |-> "retry",
                              left |-> Delay(reconnectAttemptsRef + 1),
                              delay |-> Delay(reconnectAttemptsRef + 1)]}
                       /\ reconnectTimeoutRef' = id
             ELSE /\ connectionState' =
                       IF reconnectAttemptsRef >= maxReconnectAttempts
                       THEN [AfterLoss(err) EXCEPT !.lastError = MaxError]
                       ELSE AfterLoss(err)
                  /\ UNCHANGED << timers, reconnectTimeoutRef, reconnectAttemptsRef >>
  /\ UNCHANGED << wsRef, now, serverVars,
                  lastCall >>

\* A timeout that fired is no longer pending; the ref that held it keeps its
\* id, which clearTimeout ignores from then on (-1 here).
Fired(t) ==
  /\ timers' = timers \ {t}
  /\ reconnectTimeoutRef' = IF reconnectTimeoutRef = t.id THEN -1
                            ELSE reconnectTimeoutRef

\* A retry timeout that calls connect() without looking at the present channel.
RetryFiresBlind(t, ok) ==
  /\ t \in timers /\ t.kind = "retry" /\ t.left = 0
  /\ Fired(t)
  /\ ConnectBody(ok)
  /\ Does("retry")
  /\ UNCHANGED << reconnectAttemptsRef, now, serverVars,
                  lastCall >>

\* A retry timeout fires: connect() if there is no channel or it is closed.
RetryFires(t, ok) ==
  /\ t \in timers /\ t.kind = "retry" /\ t.left = 0
  /\ Fired(t)
  /\ IF wsRef = 0 \/ sockets[wsRef].rs = "closed"
     THEN ConnectBody(ok)
     ELSE UNCHANGED << wsRef, sockets, connectionState >>
  /\ Does("retry")
  /\ UNCHANGED << reconnectAttemptsRef, now, serverVars,
                  lastCall >>

\* The timeout of manualReconnect fires: connect().
GraceFires(t, ok) ==
  /\ t \in timers /\ t.kind = "grace" /\ t.left = 0
  /\ Fired(t)
  /\ ConnectBody(ok)
  /\ Does("grace")
  /\ UNCHANGED << reconnectAttemptsRef, now, serverVars,
                  lastCall >>

\* Time passes, up to the next timeout that is due: d less is left of every
\* pending timeout.
HookAdvance(d) ==
  /\ d > 0
  /\ \A t \in timers : d <= t.left
  /\ timers' = {[t EXCEPT !.left = @ - d] : t \in timers}
  /\ Does("advance")
  /\ UNCHANGED << wsRef, sockets, reconnectTimeoutRef, reconnectAttemptsRef,
                  connectionState, now, serverVars,
                  lastCall >>

NextHook ==
  \/ \E ok \in BOOLEAN : HookConnect(ok)
  \/ HookDisconnect
  \/ ManualReconnect
  \/ \E c \in ChannelIds : SockOpens(c)
  \/ \E c \in ChannelIds : SockClosing(c)
  \/ \E c \in ChannelIds, err \in BOOLEAN, code \in CloseCodes : SockLost(c, err, code)
  \/ \E t \in timers, ok \in BOOLEAN : RetryFires(t, ok)
  \/ \E t \in timers, ok \in BOOLEAN : GraceFires(t, ok)
  \/ \E d \in {t.left : t \in timers} : HookAdvance(d)

SpecHook == Init /\ [][NextHook]_vars

\* What the hook holds, the transient `did` apart.
hookState ==
  << wsRef, sockets, timers, reconnectTimeoutRef, reconnectAttemptsRef,
     connectionState >>

\* The channels whose events the hook handles.
Handled == {c \in ChannelIds : sockets[c].handlers}

\* The handled channels that are connecting or open.
Live == {c \in Handled : sockets[c].rs \in {"connecting", "open"}}

C24_HandshakeResets ==
  /\ [][\A c \in ChannelIds :
          SockOpens(c) =>
            /\ sockets[c].handlers
            /\ connectionState.isConnecting
            /\ connectionState' = [isConnected |-> TRUE, isConnecting |-> FALSE,
                                   reconnectAttempts |-> 0, lastError |-> NoError]
            /\ reconnectAttemptsRef' = 0]_vars
  /\ [](\A c \in Handled :
          sockets[c].rs \in {"open", "closing"} => reconnectAttemptsRef = 0)
  /\ [](\A t \in timers :
          (did.op = "onclose" /\ reconnectAttemptsRef = 1 /\ t.kind = "retry"
             /\ t.id = reconnectTimeoutRef)
            => t.delay = reconnectDelay)

\* A handshake has just succeeded on a channel that a retry timeout opened: the
\* counter was not 0 before.
C24_Witness ==
  /\ did.op = "onopen"
  /\ connectionState.isConnected
  /\ reconnectAttemptsRef = 0
  /\ reconnectTimeoutRef = -1

\* C25: disconnect() can run in every state; it leaves the controller
\* holding no channel, neither connected nor connecting, with no channel handled;
\* the channel it held, if open or connecting, is closing, and no other channel
\* is touched.
C25_DisconnectFromAnyState ==
  /\ [](ENABLED HookDisconnect)
  /\ [][HookDisconnect =>
          /\ wsRef' = 0
          /\ ~connectionState'.isConnected /\ ~connectionState'.isConnecting
          /\ Handled' = {}
          /\ \A c \in ChannelIds :
               IF c = wsRef /\ sockets[c].rs \in {"open", "connecting"}
               THEN sockets'[c].rs = "closing"
               ELSE c # wsRef => sockets'[c] = sockets[c]]_vars

\* disconnect() has just run on a controller that held a channel, open or
\* connecting, and had no error and no timeout.
C25_Witness ==
  /\ did.op = "disconnect"
  /\ wsRef = 0
  /\ connectionState.lastError = NoError
  /\ connectionState.reconnectAttempts = 0
  /\ \E c \in ChannelIds : sockets[c].rs = "closing"
  /\ timers = {}

\* A connection attempt starts in the step: a channel is created.
AttemptStarts ==
  \E c \in ChannelIds : sockets[c].rs # "connecting" /\ sockets'[c].rs = "connecting"

\* C26: while disconnect() is the last function the application
\* called, no connection attempt starts.
C26_NoAttemptAfterDisconnect ==
  [][(lastCall = "disconnect" /\ lastCall' = "disconnect") => ~AttemptStarts]_vars

\* C27: every loss of the handled channel (onclose runs, whatever the close
\* code) with the counter below maxReconnectAttempts adds exactly one to the
\* counter and schedules exactly one retry.
C27_EveryLossRetries ==
  [][(did'.op = "onclose" /\ reconnectAttemptsRef < maxReconnectAttempts)
       => /\ reconnectAttemptsRef' = reconnectAttemptsRef + 1
          /\ \E t \in timers' : /\ t.kind = "retry"
                                /\ timers' = timers \cup {t}
                                /\ t \notin timers]_vars

\* The timeouts set in the step.
Scheduled ==
  {t \in timers' : \A u \in timers : u.id # t.id}

\* The delays the backoff gives to attempts 1, 2 and 3.
Backoff == << 3000, 4500, 6750 >>

\* C28: the retry that an involuntary loss schedules as attempt n (the counter
\* after the loss) waits 3000, 4500, 6750 ms for n = 1, 2, 3; no pending
\* retry waits more than 10000 ms, and the formula caps every later attempt
\* at 10000 ms.
C28_BackoffDelays ==
  /\ [][\A t \in Scheduled :
          t.kind = "retry"
            => /\ did'.op = "onclose"
               /\ reconnectAttemptsRef' = reconnectAttemptsRef + 1
               /\ reconnectAttemptsRef' \in 1..maxReconnectAttempts
               /\ t.delay = Backoff[reconnectAttemptsRef']
               /\ t.left = t.delay]_vars
  /\ [](\A t \in timers : t.kind = "retry" => t.left <= t.delay /\ t.delay <= MaxDelay)
  /\ \A n \in 1..8 : Delay(n) <= MaxDelay /\ (n > 3 => Delay(n) = MaxDelay)

\* The third loss in a row has scheduled its retry, 6750 ms ahead.
C28_Witness ==
  /\ did.op = "onclose"
  /\ reconnectAttemptsRef = 3
  /\ \E t \in timers : t.kind = "retry" /\ t.delay = 6750 /\ t.left = 6750

\* The controller has given up: the state the page shows its Reconnect button in.
Failed == connectionState.lastError = MaxError

\* C29: a loss of the handled channel with the counter at
\* maxReconnectAttempts leaves the controller failed, neither connected nor
\* connecting, and sets no timeout; the counter never exceeds
\* maxReconnectAttempts; and the controller stops being failed only in a
\* step where the application calls connect() or manualReconnect().
C29_FailedUntilAsked ==
  /\ [][(did'.op = "onclose" /\ reconnectAttemptsRef >= maxReconnectAttempts)
          => /\ Failed'
             /\ ~connectionState'.isConnected /\ ~connectionState'.isConnecting
             /\ Scheduled = {}]_vars
  /\ [](reconnectAttemptsRef <= maxReconnectAttempts)
  /\ [][(Failed /\ ~Failed') => did'.op \in {"connect", "manualReconnect"}]_vars

\* The channels that are connecting or open, handled or not.
Channels == {c \in ChannelIds : sockets[c].rs \in {"connecting", "open"}}

\* C30: a retry timeout that fires while the hook holds a channel that is
\* not closed (a connection was started or established meanwhile) changes
\* nothing but the timeout itself; it starts a connection attempt only if the
\* hook holds no channel or a closed one; and after a retry or a
\* manualReconnect timeout fired, at most one channel is connecting or open.
C30_RetryChecksChannel ==
  /\ [][did'.op = "retry"
          => /\ (wsRef # 0 /\ sockets[wsRef].rs # "closed")
                  => UNCHANGED << wsRef, sockets, connectionState,
                                  reconnectAttemptsRef >>
             /\ AttemptStarts => (wsRef = 0 \/ sockets[wsRef].rs = "closed")]_vars
  /\ [](did.op \in {"retry", "grace"} => Cardinality(Channels) <= 1)

\* A retry timeout has just fired after manualReconnect() while the channel
\* that manualReconnect opened is open: it did nothing.
C30_Witness ==
  /\ did.op = "retry"
  /\ lastCall = "manualReconnect"
  /\ wsRef # 0 /\ sockets[wsRef].rs = "open"
  /\ connectionState.isConnected

\* C31: manualReconnect() leaves the counter 0 (the ref and the state), no
\* error, no channel held and no retry timeout pending, and sets one timeout
\* of GraceDelay; while manualReconnect() is the last call of the
\* application, no connection attempt starts before that timeout fires, and
\* the timeout that fires finds no channel held.
C31_ManualReconnectRestarts ==
  /\ [][did'.op = "manualReconnect"
          => /\ reconnectAttemptsRef' = 0
             /\ connectionState'.reconnectAttempts = 0
             /\ connectionState'.lastError = NoError
             /\ ~connectionState'.isConnected /\ ~connectionState'.isConnecting
             /\ wsRef' = 0
             /\ \A t \in timers' : t.kind # "retry"
             /\ \E t \in timers' \ timers :
                  /\ timers' \ timers = {t}
                  /\ t.kind = "grace" /\ t.left = GraceDelay]_vars
  /\ [][(lastCall = "manualReconnect" /\ lastCall' = "manualReconnect"
            /\ AttemptStarts) => did'.op = "grace"]_vars
  /\ [][(lastCall = "manualReconnect" /\ did'.op = "grace") => wsRef = 0]_vars

\* C32: the flags isConnected and isConnecting are never both true, and
\* isConnected is true only while the hook holds a channel that is open.
C32_OneConnectionState ==
  /\ ~(connectionState.isConnected /\ connectionState.isConnecting)
  /\ connectionState.isConnected => (wsRef # 0 /\ sockets[wsRef].rs = "open")

(***************************************************************************)
(* The price text of getPrice: what the page shows is cleaned, parsed with *)
(* parseFloat and tested, inside the retrievals of the polling ticks.      *)
(***************************************************************************)
MaxPriceLen == 2

\* The characters of a price text: digits, the minus sign, the thousands
\* separator and a character the cleaning removes.
PriceChars == {"0", "1", "-", ",", "$"}
PriceDigits == {"0", "1"}

PriceTexts ==
  UNION {[1..n -> PriceChars] : n \in 0..MaxPriceLen}

\* priceText.replace(/[^\d.,-]/g, '').replace(/,/g, '')
CleanPrice(text) ==
  LET kept == SelectSeq(text, LAMBDA ch : ch \in PriceDigits \cup {",", "-"})
  IN  SelectSeq(kept, LAMBDA ch : ch # ",")

DigitValue(ch) == IF ch = "1" THEN 1 ELSE 0

\* The digits that s starts with.
RECURSIVE DigitPrefix(_)
DigitPrefix(s) ==
  IF s = <<>> \/ Head(s) \notin PriceDigits THEN <<>>
  ELSE <<Head(s)>> \o DigitPrefix(Tail(s))

\* The decimal number that a sequence of digits writes.
RECURSIVE Decimal(_)
Decimal(ds) ==
  IF ds = <<>> THEN 0
  ELSE 10 * Decimal(SubSeq(ds, 1, Len(ds) - 1)) + DigitValue(ds[Len(ds)])

NaN == [nan |-> TRUE, val |-> 0]

\* parseFloat: an optional sign and the longest run of digits after it; NaN
\* when there is no digit there.
ParseFloat(s) ==
  LET neg  == s # <<>> /\ Head(s) = "-"
      rest == IF neg THEN Tail(s) ELSE s
      ds   == DigitPrefix(rest)
  IN  IF ds = <<>> THEN NaN
      ELSE [nan |-> FALSE, val |-> IF neg THEN 0 - Decimal(ds) ELSE Decimal(ds)]

\* A test that takes every number for a price.
PriceOkAnyNumber(text) ==
  text # <<>> /\ ~ParseFloat(CleanPrice(text)).nan

\* getPrice goes on with the price text: it is not empty, and it parses to a
\* number greater than 0.
PriceOk(text) ==
  /\ text # <<>>
  /\ ~ParseFloat(CleanPrice(text)).nan
  /\ ParseFloat(CleanPrice(text)).val > 0

\* The price text of retrieval i of tick k is read from its open page: with a
\* price in it getPrice awaits the optional fields, otherwise it returns null.
RetrieveText(k, i, text) ==
  /\ ~stopped
  /\ NoTick
  /\ ticks[k].st = "run"
  /\ ticks[k].res[i].k = "pend"
  /\ \E q \in openPages : q.id = ticks[k].res[i].page
  /\ IF PriceOk(text)
     THEN /\ ticks' = [ticks EXCEPT ![k].res[i] =
                         PricedRes(ticks[k].res[i].page,
                                   ParseFloat(CleanPrice(text)).val)]
          /\ NoSend
          /\ Return("getPrice", text, "number", "parsed")
     ELSE /\ TickContinue(k, [ticks[k].res EXCEPT ![i] = NullRes])
          /\ Return("getPrice", text, "null", "no price")
  /\ UNCHANGED << scraperVars, clockVars, hookVars, histVars, calls >>

NextParse ==
  \/ \E k \in TickIds : TickStart(k)
  \/ \E k \in TickIds, i \in PageIds, text \in PriceTexts :
       i <= Len(ticks[k].res) /\ RetrieveText(k, i, text)
  \/ \E k \in TickIds, i \in PageIds :
       i <= Len(ticks[k].res) /\ RetrieveOk(k, i)
  \/ \E k \in TickIds, i \in PageIds :
       i <= Len(ticks[k].res) /\ RetrieveNull(k, i)
  \/ \E v \in Viewers : Connect(v)
  \/ \E d \in TimeSteps : Advance(d)

SpecParse == InitStream /\ [][NextParse]_vars

\* C33: every quote of a broadcast prices batch has a price greater than
\* 0; a retrieval whose price text parses to no number or to a number not
\* greater than 0 gives null and leaves the cache timestamps as they are, and
\* the price that a retrieval keeps is the number parsed and is greater
\* than 0.
C33_QuotesArePositive ==
  /\ [](sent.type = "prices"
         => \A j \in 1..Len(sent.data) : sent.data[j].price > 0)
  /\ [][\A k \in TickIds, i \in PageIds, text \in PriceTexts :
          (i <= Len(ticks[k].res) /\ RetrieveText(k, i, text))
            => IF ParseFloat(CleanPrice(text)).nan
                  \/ ParseFloat(CleanPrice(text)).val <= 0
               THEN /\ lastPriceUpdate' = lastPriceUpdate
                    /\ (ticks'[k].st = "run" => ticks'[k].res[i] = NullRes)
                    /\ returned'.res = "null"
               ELSE /\ ticks'[k].res[i].k = "priced"
                    /\ ticks'[k].res[i].price = ParseFloat(CleanPrice(text)).val
                    /\ ticks'[k].res[i].price > 0]_vars

\* The last retrieval of a tick read "-1", which parses to a number below 0:
\* it gave null, and the batch broadcast holds the quote of the other ticker only.
C33_Witness ==
  /\ returned.op = "getPrice" /\ returned.res = "null"
  /\ returned.arg = <<"-", "1">>
  /\ sent.type = "prices" /\ Len(sent.data) = 1
  /\ sent.to # {}

(***************************************************************************)
(* Messages from the server reach the hook: onmessage.                     *)
(***************************************************************************)
\* What a message holds: JSON text or text JSON.parse throws on.
Frames == {"json", "malformed"}

\* An onmessage without the try block: the exception of JSON.parse ends the
\* connection as a failure does.
SockMessageFatal(c, m) ==
  /\ sockets[c].rs = "open" /\ sockets[c].handlers
  /\ IF m = "malformed"
     THEN /\ sockets' = [sockets EXCEPT ![c].rs = "closed"]
          /\ connectionState' = [connectionState EXCEPT !.isConnected = FALSE,
                                                        !.lastError = "Connection error"]
     ELSE UNCHANGED << sockets, connectionState >>
  /\ Does(IF m = "malformed" THEN "dropped" ELSE "onMessage")
  /\ UNCHANGED << wsRef, timers, reconnectTimeoutRef, reconnectAttemptsRef,
                  now, serverVars, lastCall >>

\* A message arrives on the open channel the hook handles: it is parsed and
\* handed to the application's onMessage; a parse error is logged.
SockMessage(c, m) ==
  /\ sockets[c].rs = "open" /\ sockets[c].handlers
  /\ Does(IF m = "malformed" THEN "dropped" ELSE "onMessage")
  /\ UNCHANGED << wsRef, sockets, timers, reconnectTimeoutRef,
                  reconnectAttemptsRef, connectionState, now, serverVars,
                  lastCall >>

NextHookMsg ==
  \/ NextHook
  \/ \E c \in ChannelIds, m \in Frames : SockMessage(c, m)

SpecHookMsg == Init /\ [][NextHookMsg]_vars

\* C34: a malformed message on the handled channel does not reach the
\* application's onMessage and leaves the channel open and the connection
\* state, the counter, the timeouts and the channel held as they were; the
\* application's onMessage runs only for a message that parses.
C34_MalformedIsDropped ==
  /\ [][\A c \in ChannelIds :
          SockMessage(c, "malformed")
            => /\ did'.op # "onMessage"
               /\ sockets'[c].rs = "open"
               /\ UNCHANGED hookState]_vars
  /\ [][did'.op = "onMessage"
          => \E c \in ChannelIds : SockMessage(c, "json")]_vars

\* A malformed message has just been dropped on a connected controller.
C34_Witness ==
  /\ did.op = "dropped"
  /\ connectionState.isConnected
  /\ wsRef # 0 /\ sockets[wsRef].rs = "open" /\ sockets[wsRef].handlers

\* An add or remove call is suspended at one of its awaits.
ChangeInFlight ==
  \E c \in CallIds : calls[c].op \in {"add", "remove"}

\* C35: whenever no add or remove call is in flight, the tracked tickers
\* are the tickers that have a page registered, and each of these pages is
\* open.
C35_TrackedEqualsSessions ==
  ~ChangeInFlight
    => /\ Range(activeTickers) = DOMAIN pages
       /\ \A t \in Range(activeTickers) : SessionOpen(t)

\* An add call has just returned a failure of the source.
AddFailed ==
  returned.op = "add" /\ returned.res = "SourceUnavailable"

\* C36: when an add call has failed and no other add call is in flight,
\* every page open in the browser is the page registered for its ticker (the
\* failed call left none of its own behind); and the step in which an add
\* call fails leaves the registered pages as they were.
C36_FailedAddLeavesNothing ==
  /\ []((AddFailed /\ \A c \in CallIds : calls[c].op # "add")
          => \A q \in openPages :
               q.ticker \in DOMAIN pages /\ pages[q.ticker] = q.id)
  /\ [][AddFailed' => pages' = pages]_vars

(***************************************************************************)
(* The polling ticks with room for a tick that starts while the one before *)
(* is still awaiting its retrievals: setInterval does not wait for the     *)
(* promise of its async callback.                                          *)
(***************************************************************************)
OverlapTicks == 1..(MaxTicks + 1)

InitOverlap ==
  /\ browser = TRUE
  /\ pages = [t \in Range(StreamTickers) |-> IF t = StreamTickers[1] THEN 1 ELSE 2]
  /\ activeTickers = StreamTickers
  /\ lastPriceUpdate = << >>
  /\ openPages = {[id |-> i, ticker |-> StreamTickers[i]] : i \in 1..2}
  /\ nextPage = 3
  /\ calls = [c \in CallIds |-> IdleCall]
  /\ ticks = [k \in OverlapTicks |-> IdleTick]
  /\ clients = << >>
  /\ wsState = [v \in Viewers |-> "none"]
  /\ isStreaming = TRUE
  /\ stopped = FALSE
  /\ now = 0
  /\ nextTickAt = STREAM_INTERVAL
  /\ nextPingAt = PING_INTERVAL
  /\ returned = NoResult
  /\ sent = NoMsg
  /\ snapshot = NoSnap
  /\ removed = {}
  /\ HookInit

NextOverlap ==
  \/ \E k \in OverlapTicks : TickStart(k)
  \/ \E k \in OverlapTicks, i \in PageIds, price \in SourcePrices :
       i <= Len(ticks[k].res) /\ RetrievePrice(k, i, price)
  \/ \E k \in OverlapTicks, i \in PageIds :
       i <= Len(ticks[k].res) /\ RetrieveOk(k, i)
  \/ \E k \in OverlapTicks, i \in PageIds :
       i <= Len(ticks[k].res) /\ RetrieveNull(k, i)
  \/ \E v \in Viewers : Connect(v)
  \/ \E d \in TimeSteps : Advance(d)

SpecOverlap == InitOverlap /\ [][NextOverlap]_vars

\* The retrievals of ticker t that are awaiting the source.
InFlight(t) ==
  {ki \in OverlapTicks \X PageIds :
     /\ ticks[ki[1]].st = "run"
     /\ ki[2] <= Len(ticks[ki[1]].res)
     /\ ticks[ki[1]].snap[ki[2]] = t
     /\ ticks[ki[1]].res[ki[2]].k \in {"pend", "priced"}}

\* C37: at most one tick is awaiting its retrievals at any time, and at
\* most one retrieval per ticker is in flight.
C37_TicksDoNotOverlap ==
  /\ Cardinality({k \in OverlapTicks : ticks[k].st = "run"}) <= 1
  /\ \A t \in Range(StreamTickers) : Cardinality(InFlight(t)) <= 1

\* C38: the tick that completes and broadcasts its batch started before
\* every tick still awaiting its retrievals, and a quote in a broadcast
\* batch is not older than the start of the latest retrieval completed for
\* its ticker (the quote a viewer receives last is the latest retrieved).
C38_BatchesInTickOrder ==
  /\ [][\A k \in OverlapTicks :
          (TickCompletes(k) /\ sent'.type = "prices")
            => \A j \in OverlapTicks :
                 ticks'[j].st = "run" => ticks[k].t0 <= ticks'[j].t0]_vars
  /\ [](sent.type = "prices"
         => \A i \in 1..Len(sent.data) :
              sent.data[i].timestamp >= LastUpdate(sent.data[i].ticker))

\* C39: a heartbeat round unregisters no viewer whose socket is open and
\* whose last acknowledgement, or registration, is at most CLIENT_TIMEOUT
\* old; so a viewer with an open socket that acknowledged since the round
\* before stays registered, its entry untouched.
C39_AliveViewerKept ==
  /\ [][PingClients =>
          \A v \in (DOMAIN clients) \ (DOMAIN clients') :
            \/ wsState[v] # "open"
            \/ now - clients[v].lastPing > CLIENT_TIMEOUT]_vars
  /\ [][PingClients =>
          \A v \in DOMAIN clients :
            (wsState[v] = "open" /\ now - clients[v].lastPing <= PING_INTERVAL)
              => (v \in DOMAIN clients' /\ clients'[v] = clients[v])]_vars

\* The round of the third period has just run and kept a viewer with an open
\* socket whose last acknowledgement, or registration, is one period old,
\* while the other viewer is not registered.
C39_Witness ==
  /\ now = 3 * PING_INTERVAL /\ nextPingAt = 4 * PING_INTERVAL
  /\ \E v \in DOMAIN clients :
       /\ wsState[v] = "open"
       /\ clients[v].lastPing = now - PING_INTERVAL
  /\ \E u \in HubViewers : u \notin DOMAIN clients

\* C40: a viewer whose socket is open is registered; the step that
\* unregisters a viewer leaves its socket closed; and nothing is sent to a
\* viewer that is not registered.
C40_EvictionClosesChannel ==
  /\ [](\A v \in HubViewers : wsState[v] = "open" => v \in DOMAIN clients)
  /\ [][\A v \in (DOMAIN clients) \ (DOMAIN clients') :
          wsState'[v] \notin {"open", "broken"}]_vars
  /\ [](sent.to \subseteq DOMAIN clients)

====
